---- MODULE Spec2Model ----
(***************************************************************************)
(* Model of the configuration store of ccontavalli/enkit (lib/config):     *)
(* the key codec, the SQLite and bbolt loaders, the stores layered on them *)
(* and the request tracer; and of the mail sender of lib/kemail.  Strings  *)
(* are sequences of byte values (0..255).                                  *)
(***************************************************************************)
EXTENDS Integers, Sequences, FiniteSets, TLC

VARIABLES
    cin,      \* key codec: the string handed to the codec
    cop,      \* key codec: which function ran ("none" before any ran)
    cout,     \* key codec: [panic, out] result of the function that ran
    configs,  \* the rows of the SQLite table configs: <<scope, name>> -> data
    bolt,     \* the buckets of the bbolt file: scope -> (name -> data)
    last,     \* the call that just returned, with its results
    nraw,     \* number of rows written directly in the table, bypassing a store
    send,     \* kemail: the frame of the running call of Send and what it did
    callers   \* bbolt: the Loader call each concurrent caller is in

vars == <<cin, cop, cout, configs, bolt, last, nraw, send, callers>>
codecVars == <<cin, cop, cout>>

(***************************************************************************)
(* Bounds of the model.                                                    *)
(***************************************************************************)
MaxKeyLen == 4
MaxRaw == 1

(***************************************************************************)
(* Byte values named by the source.                                        *)
(***************************************************************************)
Percent == 37
Slash == 47
Nul == 0
Dot == 46

At(s, i) == s[i + 1]

\* The empty table, and the record of "no call has returned".
NoRows == [p \in {} |-> <<>>]
NoBuckets == [s \in {} |-> <<>>]
NoCall == [op |-> "none"]
\* No call of Send is running, and no caller is in a bbolt Loader.
NoSend == [pc |-> "idle"]
NoCallers == [c \in {} |-> <<>>]

(***************************************************************************)
(* Key codec.                                                              *)
(***************************************************************************)
\* A toHex that writes lowercase digits.
toHexLower(v) == IF v < 10 THEN 48 + v ELSE 97 + (v - 10)

toHex(v) == IF v < 10 THEN 48 + v ELSE 65 + (v - 10)

fromHex(b) ==
    IF b >= 48 /\ b <= 57 THEN [v |-> b - 48, ok |-> TRUE]
    ELSE IF b >= 97 /\ b <= 102 THEN [v |-> b - 97 + 10, ok |-> TRUE]
    ELSE IF b >= 65 /\ b <= 70 THEN [v |-> b - 65 + 10, ok |-> TRUE]
    ELSE [v |-> 0, ok |-> FALSE]

RECURSIVE EncodeFrom(_, _)
EncodeFrom(key, i) ==
    IF i >= Len(key) THEN <<>>
    ELSE (IF At(key, i) \in {Slash, Percent, Nul}
          THEN <<Percent, toHex(At(key, i) \div 16), toHex(At(key, i) % 16)>>
          ELSE <<At(key, i)>>) \o EncodeFrom(key, i + 1)

\* A codec that forgets to escape '%'.
EncodeKeyNoPercent(key) ==
    LET RECURSIVE Enc(_)
        Enc(i) == IF i >= Len(key) THEN <<>>
                  ELSE (IF At(key, i) \in {Slash, Nul}
                        THEN <<Percent, toHex(At(key, i) \div 16), toHex(At(key, i) % 16)>>
                        ELSE <<At(key, i)>>) \o Enc(i + 1)
    IN Enc(0)

EncodeKey(key) == IF key = <<>> THEN key ELSE EncodeFrom(key, 0)

\* The result of a run of DecodeKey: it panicked (index out of range), or
\* it returned out.
Returned(s) == [panic |-> FALSE, out |-> s]
Panicked == [panic |-> TRUE, out |-> <<>>]
Emit(bytes, rest) == IF rest.panic THEN rest ELSE Returned(bytes \o rest.out)
InRange(s, i) == i >= 0 /\ i < Len(s)

RECURSIVE DecodeFrom(_, _)
DecodeFrom(encoded, i) ==
    IF i >= Len(encoded) THEN Returned(<<>>)
    ELSE IF At(encoded, i) # Percent \/ i + 2 >= Len(encoded)
         THEN Emit(<<At(encoded, i)>>, DecodeFrom(encoded, i + 1))
    ELSE IF ~InRange(encoded, i + 1) \/ ~InRange(encoded, i + 2) THEN Panicked
    ELSE LET hi == fromHex(At(encoded, i + 1))
             lo == fromHex(At(encoded, i + 2))
         IN IF ~hi.ok \/ ~lo.ok
            THEN Emit(<<At(encoded, i)>>, DecodeFrom(encoded, i + 1))
            ELSE Emit(<<(hi.v * 16 + lo.v) % 256>>, DecodeFrom(encoded, i + 3))

\* A decoder whose length test is off by one: it reads encoded[i+2] past the end.
DecodeKeyRunOffByOne(encoded) ==
    LET RECURSIVE Dec(_)
        Dec(i) ==
            IF i >= Len(encoded) THEN Returned(<<>>)
            ELSE IF At(encoded, i) # Percent \/ i + 1 >= Len(encoded)
                 THEN Emit(<<At(encoded, i)>>, Dec(i + 1))
            ELSE IF ~InRange(encoded, i + 2) THEN Panicked
            ELSE LET hi == fromHex(At(encoded, i + 1))
                     lo == fromHex(At(encoded, i + 2))
                 IN IF ~hi.ok \/ ~lo.ok
                    THEN Emit(<<At(encoded, i)>>, Dec(i + 1))
                    ELSE Emit(<<(hi.v * 16 + lo.v) % 256>>, Dec(i + 3))
    IN IF encoded = <<>> THEN Returned(encoded) ELSE Dec(0)

DecodeKeyRun(encoded) ==
    IF encoded = <<>> THEN Returned(encoded) ELSE DecodeFrom(encoded, 0)

DecodeKey(encoded) == DecodeKeyRun(encoded).out

(***************************************************************************)
(* Marshaller registry (package marshal).  A marshaller is named by its    *)
(* format; NilM is the nil FileMarshaller.  Serialized data is a sequence: *)
(* <<>> is a zero-length payload, <<m, v>> the encoding of value v in      *)
(* format m, Garbage a payload no format decodes.                          *)
(***************************************************************************)
Toml == "toml"
Json == "json"
Yaml == "yaml"
Gob == "gob"
NilM == "nil"

Extension(m) ==
    CASE m = Toml -> <<116, 111, 109, 108>>
      [] m = Json -> <<106, 115, 111, 110>>
      [] m = Yaml -> <<121, 97, 109, 108>>

MarshalValue(m, v) == <<m, v>>
Garbage == <<"garbage">>
Decodes(m, data) == Len(data) = 2 /\ data[1] = m

(***************************************************************************)
(* Errors.                                                                 *)
(***************************************************************************)
Nil == [kind |-> "nil"]
ErrNotExist == [kind |-> "ErrNotExist"]
ErrBackend == [kind |-> "backend"]
ErrUsage == [kind |-> "usage"]
ErrDecode(m) == [kind |-> "decode", m |-> m]
CouldNotDelete(fullname, err) == [kind |-> "wrapped", name |-> fullname, err |-> err]

\* os.IsNotExist: true of os.ErrNotExist itself, not of an error wrapping it
\* with fmt.Errorf nor of a multierror.
IsNotExist(err) == err = ErrNotExist

\* multierror.New: nil for an empty list, else the aggregate of the errors.
MultiErrorNew(errors) ==
    IF errors = <<>> THEN Nil ELSE [kind |-> "multi", errs |-> errors]

(***************************************************************************)
(* SQLite loader: rows of table configs keyed by (scope, name).  dberr     *)
(* tells whether the statement fails in the database (locked, closed, I/O)*)
(***************************************************************************)
Put(cfg, p, data) == [q \in (DOMAIN cfg) \cup {p} |-> IF q = p THEN data ELSE cfg[q]]
Remove(cfg, p) == [q \in (DOMAIN cfg) \ {p} |-> cfg[q]]

RECURSIVE Less(_, _)
Less(a, b) ==
    IF a = <<>> THEN b # <<>>
    ELSE IF b = <<>> THEN FALSE
    ELSE IF Head(a) # Head(b) THEN Head(a) < Head(b)
    ELSE Less(Tail(a), Tail(b))

RECURSIVE OrderByName(_)
OrderByName(S) ==
    IF S = {} THEN <<>>
    ELSE LET min == CHOOSE x \in S : \A y \in S \ {x} : Less(x, y)
         IN <<min>> \o OrderByName(S \ {min})

LoaderList(cfg, scope, dberr) ==
    IF dberr THEN [names |-> <<>>, err |-> ErrBackend]
    ELSE [names |-> OrderByName({p[2] : p \in {q \in DOMAIN cfg : q[1] = scope}}),
          err |-> Nil]

LoaderRead(cfg, scope, name, dberr) ==
    IF dberr THEN [data |-> <<>>, err |-> ErrBackend]
    ELSE IF <<scope, name>> \notin DOMAIN cfg THEN [data |-> <<>>, err |-> ErrNotExist]
    ELSE [data |-> cfg[<<scope, name>>], err |-> Nil]

\* A Write that keeps the data of a row that exists (INSERT OR IGNORE).
LoaderWriteKeepsFirst(cfg, scope, name, data, dberr) ==
    IF dberr THEN [cfg |-> cfg, err |-> ErrBackend]
    ELSE IF <<scope, name>> \in DOMAIN cfg THEN [cfg |-> cfg, err |-> Nil]
    ELSE [cfg |-> Put(cfg, <<scope, name>>, data), err |-> Nil]

LoaderWrite(cfg, scope, name, data, dberr) ==
    IF dberr THEN [cfg |-> cfg, err |-> ErrBackend]
    ELSE [cfg |-> Put(cfg, <<scope, name>>, data), err |-> Nil]

\* A Delete whose statement forgets the scope: DELETE ... WHERE name = ?.
LoaderDeleteAnyScope(cfg, scope, name, dberr) ==
    IF dberr THEN [cfg |-> cfg, err |-> ErrBackend]
    ELSE IF \A p \in DOMAIN cfg : p[2] # name THEN [cfg |-> cfg, err |-> ErrNotExist]
    ELSE [cfg |-> [q \in {p \in DOMAIN cfg : p[2] # name} |-> cfg[q]], err |-> Nil]

LoaderDelete(cfg, scope, name, dberr) ==
    IF dberr THEN [cfg |-> cfg, err |-> ErrBackend]
    ELSE IF <<scope, name>> \notin DOMAIN cfg THEN [cfg |-> cfg, err |-> ErrNotExist]
    ELSE [cfg |-> Remove(cfg, <<scope, name>>), err |-> Nil]

RECURSIVE Join(_, _)
Join(parts, sep) ==
    IF parts = <<>> THEN <<>>
    ELSE IF Len(parts) = 1 THEN parts[1]
    ELSE parts[1] \o sep \o Join(Tail(parts), sep)

storeScope(app, namespaces) == Join(<<app>> \o namespaces, <<Slash>>)

\* strings.HasPrefix.
HasPrefix(s, prefix) ==
    /\ Len(s) >= Len(prefix)
    /\ SubSeq(s, 1, Len(prefix)) = prefix

\* strings.HasSuffix and strings.TrimSuffix.
HasSuffix(s, suffix) ==
    /\ Len(s) >= Len(suffix)
    /\ SubSeq(s, Len(s) - Len(suffix) + 1, Len(s)) = suffix
TrimSuffix(s, suffix) ==
    IF HasSuffix(s, suffix) THEN SubSeq(s, 1, Len(s) - Len(suffix)) ELSE s

\* FileMarshallers.ByFilePathExtension: the first marshaller of the list whose
\* extension is what follows the last '.' of path; nil when there is none.
ByFilePathExtension(marshaller, path) ==
    LET dots == {i \in 1..Len(path) : path[i] = Dot}
    IN IF dots = {} THEN NilM
       ELSE LET last_dot == CHOOSE i \in dots : \A j \in dots : j <= i
                ext == SubSeq(path, last_dot + 1, Len(path))
                hits == {i \in 1..Len(marshaller) : Extension(marshaller[i]) = ext}
            IN IF hits = {} THEN NilM
               ELSE marshaller[CHOOSE i \in hits : \A j \in hits : i <= j]

(***************************************************************************)
(* Descriptors.                                                            *)
(***************************************************************************)
NilDesc == [type |-> "nil"]
Key(k) == [type |-> "Key", k |-> k]
FormatKey(k, m) == [type |-> "multi", k |-> k, m |-> m]
DescKey(d) == d.k

(***************************************************************************)
(* MultiFormat: a store is [scope, marshaller], marshaller being the       *)
(* ordered list of formats; the loader is the SQLite loader of that scope. *)
(***************************************************************************)
pathForKey(key, m) ==
    LET encoded == EncodeKey(key)
    IN IF m = NilM THEN encoded ELSE encoded \o <<Dot>> \o Extension(m)

\* A parseDesc that drops the format of a FormatKey.
parseDescDropsFormat(desc) ==
    IF desc.type = "Key" \/ desc.type = "multi"
    THEN [name |-> desc.k, marshaller |-> NilM, err |-> Nil]
    ELSE [name |-> <<>>, marshaller |-> NilM, err |-> ErrUsage]

parseDesc(desc) ==
    IF desc.type = "Key" THEN [name |-> desc.k, marshaller |-> NilM, err |-> Nil]
    ELSE IF desc.type = "multi"
         THEN [name |-> pathForKey(desc.k, desc.m), marshaller |-> desc.m, err |-> Nil]
    ELSE [name |-> <<>>, marshaller |-> NilM, err |-> ErrUsage]

\* A Marshal whose default format is the last marshaller of the list.
MultiMarshalLastFormat(ss, cfg, desc, value, dberr) ==
    LET pd == parseDesc(desc)
        marshaller == IF pd.marshaller = NilM THEN ss.marshaller[Len(ss.marshaller)]
                      ELSE pd.marshaller
        name == IF pd.marshaller = NilM THEN pathForKey(pd.name, marshaller) ELSE pd.name
    IN IF pd.err # Nil THEN [cfg |-> cfg, err |-> pd.err]
       ELSE LoaderWrite(cfg, ss.scope, name, MarshalValue(marshaller, value), dberr)

MultiMarshal(ss, cfg, desc, value, dberr) ==
    LET pd == parseDesc(desc)
        marshaller == IF pd.marshaller = NilM THEN ss.marshaller[1] ELSE pd.marshaller
        name == IF pd.marshaller = NilM THEN pathForKey(pd.name, marshaller) ELSE pd.name
    IN IF pd.err # Nil THEN [cfg |-> cfg, err |-> pd.err]
       ELSE LoaderWrite(cfg, ss.scope, name, MarshalValue(marshaller, value), dberr)

RECURSIVE DeleteEach(_, _, _, _, _)
\* The deletions of the loop of Delete(Key), from marshaller number i on:
\* failing is the set of formats whose DELETE statement fails in the database.
DeleteEach(ss, cfg, name, failing, i) ==
    IF i > Len(ss.marshaller) THEN [cfg |-> cfg, nonexisting |-> 0, errors |-> <<>>]
    ELSE LET fullname == pathForKey(name, ss.marshaller[i])
             d == LoaderDelete(cfg, ss.scope, fullname, ss.marshaller[i] \in failing)
             rest == DeleteEach(ss, d.cfg, name, failing, i + 1)
         IN IF d.err = Nil THEN rest
            ELSE IF IsNotExist(d.err)
                 THEN [rest EXCEPT !.nonexisting = rest.nonexisting + 1]
            ELSE [rest EXCEPT !.errors = <<CouldNotDelete(fullname, d.err)>> \o rest.errors]

\* A Delete that treats a FormatKey as a Key.
MultiDeleteAllFormats(ss, cfg, desc, failing) ==
    IF desc.type \notin {"Key", "multi"} THEN [cfg |-> cfg, err |-> ErrUsage]
    ELSE LET r == DeleteEach(ss, cfg, desc.k, failing, 1)
         IN IF r.nonexisting = Len(ss.marshaller)
            THEN [cfg |-> r.cfg, err |-> ErrNotExist]
            ELSE [cfg |-> r.cfg, err |-> MultiErrorNew(r.errors)]

MultiDelete(ss, cfg, desc, failing) ==
    LET pd == parseDesc(desc)
    IN IF pd.err # Nil THEN [cfg |-> cfg, err |-> pd.err]
       ELSE IF pd.marshaller # NilM
            THEN LoaderDelete(cfg, ss.scope, pd.name, pd.marshaller \in failing)
       ELSE LET r == DeleteEach(ss, cfg, pd.name, failing, 1)
            IN IF r.nonexisting = Len(ss.marshaller)
               THEN [cfg |-> r.cfg, err |-> ErrNotExist]
               ELSE [cfg |-> r.cfg, err |-> MultiErrorNew(r.errors)]

\* The closure load of Unmarshal: dest is what the caller's value holds.
\* A nil marshaller makes m.Extension() panic once the read succeeded.
load(ss, cfg, m, path, dest, dberr) ==
    LET rd == LoaderRead(cfg, ss.scope, path, dberr)
    IN IF rd.err # Nil
       THEN [desc |-> NilDesc, err |-> rd.err, value |-> dest, panic |-> FALSE]
       ELSE IF m = NilM
       THEN [desc |-> NilDesc, err |-> Nil, value |-> dest, panic |-> TRUE]
       ELSE LET key == DecodeKey(TrimSuffix(path, <<Dot>> \o Extension(m)))
                descriptor == FormatKey(key, m)
            IN IF Len(rd.data) <= 0
               THEN [desc |-> descriptor, err |-> Nil, value |-> dest, panic |-> FALSE]
               ELSE IF Decodes(m, rd.data)
               THEN [desc |-> descriptor, err |-> Nil, value |-> rd.data[2], panic |-> FALSE]
               ELSE [desc |-> descriptor, err |-> ErrDecode(m), value |-> dest, panic |-> FALSE]

\* The loop of Unmarshal(Key) from marshaller number i on; prev is the
\* (result, err) of the previous iteration.
RECURSIVE LoadEach(_, _, _, _, _, _, _)
LoadEach(ss, cfg, key, dest, failing, i, prev) ==
    IF i > Len(ss.marshaller) THEN prev
    ELSE LET m == ss.marshaller[i]
             r == load(ss, cfg, m, pathForKey(key, m), dest, m \in failing)
         IN IF r.err = Nil THEN r
            ELSE LoadEach(ss, cfg, key, dest, failing, i + 1, r)

MultiUnmarshal(ss, cfg, desc, dest, failing) ==
    IF desc.type = "nil"
    THEN [desc |-> NilDesc, err |-> ErrUsage, value |-> dest, panic |-> FALSE]
    ELSE IF desc.type = "Key"
    THEN LoadEach(ss, cfg, desc.k, dest, failing, 1,
                  [desc |-> NilDesc, err |-> Nil, value |-> dest, panic |-> FALSE])
    ELSE IF desc.type = "multi"
    THEN load(ss, cfg, desc.m, pathForKey(desc.k, desc.m), dest, desc.m \in failing)
    ELSE [desc |-> NilDesc, err |-> ErrUsage, value |-> dest, panic |-> FALSE]

(***************************************************************************)
(* Unmarshal(Key) and Delete(Key) make one call of the loader per format,  *)
(* each its own statement in the database, so what another user of the     *)
(* database writes can fall between two of them.  The record c of a call   *)
(* inside its loop has op "Unmarshal.loop" or "Delete.loop", the           *)
(* descriptor, the formats whose statement failed in the database and i,   *)
(* the number of the format the next iteration uses; a call that returned  *)
(* has op "Unmarshal" or "Delete".  Two fields only record history: raced  *)
(* is the set of the names of the key of the call (the key with the        *)
(* extension of a format, or the key alone) that other users wrote while   *)
(* the call was in its loop, and reports lists what each deletion of the   *)
(* loop of Delete reported.                                                *)
(***************************************************************************)
\* An iteration without the early return: the loop goes on after a format
\* loaded and the call returns what the last format gave.
UnmarshalProbeNoReturn(ss, cfg, c, dest) ==
    LET m == ss.marshaller[c.i]
        r == load(ss, cfg, m, pathForKey(c.desc.k, m), dest, m \in c.failing)
    IN IF c.i = Len(ss.marshaller)
       THEN [op |-> "Unmarshal", desc |-> c.desc, failing |-> c.failing,
             err |-> r.err, rdesc |-> r.desc, value |-> r.value, panic |-> r.panic,
             raced |-> c.raced]
       ELSE [c EXCEPT !.i = c.i + 1]

\* One iteration of the loop of Unmarshal(Key): the record of the call
\* after it.
UnmarshalProbe(ss, cfg, c, dest) ==
    LET m == ss.marshaller[c.i]
        r == load(ss, cfg, m, pathForKey(c.desc.k, m), dest, m \in c.failing)
    IN IF r.err = Nil \/ c.i = Len(ss.marshaller)
       THEN [op |-> "Unmarshal", desc |-> c.desc, failing |-> c.failing,
             err |-> r.err, rdesc |-> r.desc, value |-> r.value, panic |-> r.panic,
             raced |-> c.raced]
       ELSE [c EXCEPT !.i = c.i + 1]

\* What Delete(Key) returns once its loop is over.
DeleteOutcome(ss, c, nonexisting, errors, reports) ==
    [op |-> "Delete", desc |-> c.desc, failing |-> c.failing,
     err |-> IF nonexisting = Len(ss.marshaller) THEN ErrNotExist
             ELSE MultiErrorNew(errors),
     reports |-> reports, raced |-> c.raced]

\* An iteration that leaves the loop at the first deletion that fails in
\* the database.
DeleteAttemptStopsAtError(ss, cfg, c) ==
    LET m == ss.marshaller[c.i]
        fullname == pathForKey(c.desc.k, m)
        d == LoaderDelete(cfg, ss.scope, fullname, m \in c.failing)
        nonexisting == IF IsNotExist(d.err) THEN c.nonexisting + 1 ELSE c.nonexisting
        errors == IF d.err # Nil /\ ~IsNotExist(d.err)
                  THEN Append(c.errors, CouldNotDelete(fullname, d.err))
                  ELSE c.errors
        reports == Append(c.reports, IF d.err = Nil THEN "deleted"
                                     ELSE IF IsNotExist(d.err) THEN "not-found"
                                     ELSE "error")
    IN [cfg |-> d.cfg,
        last |-> IF c.i = Len(ss.marshaller) \/ (d.err # Nil /\ ~IsNotExist(d.err))
                 THEN DeleteOutcome(ss, c, nonexisting, errors, reports)
                 ELSE [c EXCEPT !.i = c.i + 1, !.nonexisting = nonexisting,
                                !.errors = errors, !.reports = reports]]

\* One iteration of the loop of Delete(Key): the table and the record of
\* the call after it.
DeleteAttempt(ss, cfg, c) ==
    LET m == ss.marshaller[c.i]
        fullname == pathForKey(c.desc.k, m)
        d == LoaderDelete(cfg, ss.scope, fullname, m \in c.failing)
        nonexisting == IF IsNotExist(d.err) THEN c.nonexisting + 1 ELSE c.nonexisting
        errors == IF d.err # Nil /\ ~IsNotExist(d.err)
                  THEN Append(c.errors, CouldNotDelete(fullname, d.err))
                  ELSE c.errors
        reports == Append(c.reports, IF d.err = Nil THEN "deleted"
                                     ELSE IF IsNotExist(d.err) THEN "not-found"
                                     ELSE "error")
    IN [cfg |-> d.cfg,
        last |-> IF c.i = Len(ss.marshaller)
                 THEN DeleteOutcome(ss, c, nonexisting, errors, reports)
                 ELSE [c EXCEPT !.i = c.i + 1, !.nonexisting = nonexisting,
                                !.errors = errors, !.reports = reports]]

\* A descriptor whose key is the whole name, extension included.
newMultiDescriptorFromPathKeepsExt(path, marshaller) ==
    FormatKey(DecodeKey(path), ByFilePathExtension(marshaller, path))

newMultiDescriptorFromPath(path, marshaller) ==
    LET m == ByFilePathExtension(marshaller, path)
        key == IF m # NilM THEN TrimSuffix(path, <<Dot>> \o Extension(m)) ELSE path
    IN FormatKey(DecodeKey(key), m)

MultiList(ss, cfg, dberr) ==
    LET list == LoaderList(cfg, ss.scope, dberr)
    IN IF list.err # Nil THEN [descs |-> <<>>, err |-> list.err]
       ELSE [descs |-> [i \in 1..Len(list.names) |->
                          newMultiDescriptorFromPath(list.names[i], ss.marshaller)],
             err |-> Nil]

(***************************************************************************)
(* bbolt loader: one bucket per scope, made by newLoader when a store is   *)
(* opened.  txerr tells whether the transaction fails in bbolt.            *)
(***************************************************************************)
CreateBucketIfNotExists(db, scope) ==
    IF scope \in DOMAIN db THEN db
    ELSE [s \in (DOMAIN db) \cup {scope} |-> IF s = scope THEN NoRows ELSE db[s]]

boltNewLoader(db, scope, txerr) ==
    IF txerr THEN [db |-> db, err |-> ErrBackend]
    ELSE [db |-> CreateBucketIfNotExists(db, scope), err |-> Nil]

BoltLoaderRead(db, scope, name, txerr) ==
    IF txerr THEN [data |-> <<>>, err |-> ErrBackend]
    ELSE IF scope \notin DOMAIN db THEN [data |-> <<>>, err |-> ErrNotExist]
    ELSE IF name \notin DOMAIN db[scope] THEN [data |-> <<>>, err |-> ErrNotExist]
    ELSE [data |-> db[scope][name], err |-> Nil]

BoltLoaderWrite(db, scope, name, data, txerr) ==
    IF txerr THEN [db |-> db, err |-> ErrBackend]
    ELSE LET made == CreateBucketIfNotExists(db, scope)
         IN [db |-> [made EXCEPT ![scope] = Put(made[scope], name, data)], err |-> Nil]

\* A Delete that removes whatever is there and reports nothing.
BoltLoaderDeleteSilent(db, scope, name, txerr) ==
    IF txerr THEN [db |-> db, err |-> ErrBackend]
    ELSE IF scope \notin DOMAIN db THEN [db |-> db, err |-> Nil]
    ELSE [db |-> [db EXCEPT ![scope] = Remove(db[scope], name)], err |-> Nil]

BoltLoaderDelete(db, scope, name, txerr) ==
    IF txerr THEN [db |-> db, err |-> ErrBackend]
    ELSE IF scope \notin DOMAIN db THEN [db |-> db, err |-> ErrNotExist]
    ELSE IF name \notin DOMAIN db[scope] THEN [db |-> db, err |-> ErrNotExist]
    ELSE [db |-> [db EXCEPT ![scope] = Remove(db[scope], name)], err |-> Nil]

BoltLoaderList(db, scope, txerr) ==
    IF txerr THEN [names |-> <<>>, err |-> ErrBackend]
    ELSE IF scope \notin DOMAIN db THEN [names |-> <<>>, err |-> Nil]
    ELSE [names |-> OrderByName(DOMAIN db[scope]), err |-> Nil]

(***************************************************************************)
(* The JSON-only stores of the two databases, and SimpleStore.             *)
(***************************************************************************)
StringDesc(name) == [type |-> "string", k |-> name]

\* An Unmarshal that hands whatever it read to the decoder.
SQLiteStoreUnmarshalAlwaysDecodes(scope, cfg, name, dest, dberr) ==
    LET rd == LoaderRead(cfg, scope, name, dberr)
    IN IF rd.err # Nil THEN [desc |-> NilDesc, err |-> rd.err, value |-> dest]
       ELSE IF Decodes(Json, rd.data)
       THEN [desc |-> StringDesc(name), err |-> Nil, value |-> rd.data[2]]
       ELSE [desc |-> StringDesc(name), err |-> ErrDecode(Json), value |-> dest]

SQLiteStoreUnmarshal(scope, cfg, name, dest, dberr) ==
    LET rd == LoaderRead(cfg, scope, name, dberr)
    IN IF rd.err # Nil THEN [desc |-> NilDesc, err |-> rd.err, value |-> dest]
       ELSE IF Len(rd.data) = 0 THEN [desc |-> StringDesc(name), err |-> Nil, value |-> dest]
       ELSE IF Decodes(Json, rd.data)
       THEN [desc |-> StringDesc(name), err |-> Nil, value |-> rd.data[2]]
       ELSE [desc |-> StringDesc(name), err |-> ErrDecode(Json), value |-> dest]

\* A descriptorName without the nil check: a nil descriptor names "".
boltDescriptorNameAcceptsNil(desc) ==
    IF desc.type = "nil" THEN [name |-> <<>>, err |-> Nil]
    ELSE [name |-> DescKey(desc), err |-> Nil]

boltDescriptorName(desc) ==
    IF desc.type = "nil" THEN [name |-> <<>>, err |-> ErrUsage]
    ELSE [name |-> DescKey(desc), err |-> Nil]

BoltStoreUnmarshal(scope, db, desc, dest, txerr) ==
    LET dn == boltDescriptorName(desc)
        rd == BoltLoaderRead(db, scope, dn.name, txerr)
    IN IF dn.err # Nil THEN [desc |-> NilDesc, err |-> dn.err, value |-> dest]
       ELSE IF rd.err # Nil THEN [desc |-> NilDesc, err |-> rd.err, value |-> dest]
       ELSE IF Len(rd.data) = 0 THEN [desc |-> Key(dn.name), err |-> Nil, value |-> dest]
       ELSE IF Decodes(Json, rd.data)
       THEN [desc |-> Key(dn.name), err |-> Nil, value |-> rd.data[2]]
       ELSE [desc |-> Key(dn.name), err |-> ErrDecode(Json), value |-> dest]

\* descriptorName of package sqlite: only a string descriptor has a name.
sqliteDescriptorName(desc) ==
    IF desc.type = "string" THEN [name |-> desc.k, err |-> Nil]
    ELSE [name |-> <<>>, err |-> ErrUsage]

SQLiteStoreList(scope, cfg, dberr) ==
    LET list == LoaderList(cfg, scope, dberr)
    IN IF list.err # Nil THEN [descs |-> <<>>, err |-> list.err]
       ELSE [descs |-> [i \in 1..Len(list.names) |-> StringDesc(list.names[i])],
             err |-> Nil]

SQLiteStoreMarshal(scope, cfg, desc, value, dberr) ==
    LET dn == sqliteDescriptorName(desc)
    IN IF dn.err # Nil THEN [cfg |-> cfg, err |-> dn.err]
       ELSE LoaderWrite(cfg, scope, dn.name, MarshalValue(Json, value), dberr)

SQLiteStoreDelete(scope, cfg, desc, dberr) ==
    LET dn == sqliteDescriptorName(desc)
    IN IF dn.err # Nil THEN [cfg |-> cfg, err |-> dn.err]
       ELSE LoaderDelete(cfg, scope, dn.name, dberr)

BoltStoreList(scope, db, txerr) ==
    LET list == BoltLoaderList(db, scope, txerr)
    IN IF list.err # Nil THEN [descs |-> <<>>, err |-> list.err]
       ELSE [descs |-> [i \in 1..Len(list.names) |-> Key(list.names[i])],
             err |-> Nil]

BoltStoreMarshal(scope, db, desc, value, txerr) ==
    LET dn == boltDescriptorName(desc)
    IN IF dn.err # Nil THEN [db |-> db, err |-> dn.err]
       ELSE BoltLoaderWrite(db, scope, dn.name, MarshalValue(Json, value), txerr)

BoltStoreDelete(scope, db, desc, txerr) ==
    LET dn == boltDescriptorName(desc)
    IN IF dn.err # Nil THEN [db |-> db, err |-> dn.err]
       ELSE BoltLoaderDelete(db, scope, dn.name, txerr)

\* SimpleStore: a store is [scope, marshaller], marshaller being one format.
\* A SimpleStore that names the entry by the raw key, without encoding it.
simplePathForKeyRaw(ss, key) == key \o <<Dot>> \o Extension(ss.marshaller)

simplePathForKey(ss, key) == EncodeKey(key) \o <<Dot>> \o Extension(ss.marshaller)

SimpleUnmarshal(ss, cfg, desc, dest, dberr) ==
    IF desc.type = "nil" THEN [desc |-> NilDesc, err |-> ErrUsage, value |-> dest]
    ELSE LET key == DescKey(desc)
             rd == LoaderRead(cfg, ss.scope, simplePathForKey(ss, key), dberr)
         IN IF rd.err # Nil THEN [desc |-> Key(key), err |-> rd.err, value |-> dest]
            ELSE IF Len(rd.data) <= 0 THEN [desc |-> Key(key), err |-> Nil, value |-> dest]
            ELSE IF Decodes(ss.marshaller, rd.data)
            THEN [desc |-> Key(key), err |-> Nil, value |-> rd.data[2]]
            ELSE [desc |-> Key(key), err |-> ErrDecode(ss.marshaller), value |-> dest]

\* A List that strips the extension but does not decode the name.
SimpleListNoDecode(ss, cfg, dberr) ==
    LET list == LoaderList(cfg, ss.scope, dberr)
    IN IF list.err # Nil THEN [descs |-> <<>>, err |-> list.err]
       ELSE [descs |-> [i \in 1..Len(list.names) |->
                          Key(TrimSuffix(list.names[i],
                                         <<Dot>> \o Extension(ss.marshaller)))],
             err |-> Nil]

SimpleList(ss, cfg, dberr) ==
    LET list == LoaderList(cfg, ss.scope, dberr)
    IN IF list.err # Nil THEN [descs |-> <<>>, err |-> list.err]
       ELSE [descs |-> [i \in 1..Len(list.names) |->
                          Key(DecodeKey(TrimSuffix(list.names[i],
                                                   <<Dot>> \o Extension(ss.marshaller))))],
             err |-> Nil]

SimpleMarshal(ss, cfg, desc, value, dberr) ==
    IF desc.type = "nil" THEN [cfg |-> cfg, err |-> ErrUsage]
    ELSE LoaderWrite(cfg, ss.scope, simplePathForKey(ss, DescKey(desc)),
                     MarshalValue(ss.marshaller, value), dberr)

SimpleDelete(ss, cfg, desc, dberr) ==
    IF desc.type = "nil" THEN [cfg |-> cfg, err |-> ErrUsage]
    ELSE LoaderDelete(cfg, ss.scope, simplePathForKey(ss, DescKey(desc)), dberr)

(***************************************************************************)
(* The MultiFormat store under check: opened by SQLiteMulti.Open("app",    *)
(* "ns") with the formats toml, json, yaml in this order, used by one      *)
(* caller that makes one call at a time.  Keys are "q" and "a/b".          *)
(***************************************************************************)
App == <<97, 112, 112>>
Ns == <<110, 115>>
Store == [scope |-> storeScope(App, <<Ns>>), marshaller |-> <<Toml, Json, Yaml>>]
Formats == {Store.marshaller[i] : i \in 1..Len(Store.marshaller)}
Keys == {<<113>>, <<97, Slash, 98>>}
Values == {"A", "B"}
Dest == "D"
KeyDescs == {Key(k) : k \in Keys}
FormatDescs == {FormatKey(k, m) : k \in Keys, m \in Formats}
Descs == KeyDescs \cup FormatDescs
\* The formats whose statement may fail in the database during a call on
\* desc (in a loop, each iteration tells whether its own statement fails).
Failing(desc) ==
    IF desc.type = "Key" THEN SUBSET Formats ELSE {{}, {desc.m}}
StoreNames == {pathForKey(k, m) : k \in Keys, m \in Formats}
\* The key "q"; as a name of the loader it has no extension.
Q == <<113>>
RawNames == StoreNames \cup {Q}
\* The name the entry of key k in format m is expected under.
NameOf(k, m) == EncodeKey(k) \o <<Dot>> \o Extension(m)

MultiInit ==
    /\ cin = <<>>
    /\ cop = "none"
    /\ cout = Returned(<<>>)
    /\ configs = NoRows
    /\ bolt = NoBuckets
    /\ last = NoCall
    /\ nraw = 0
    /\ send = NoSend
    /\ callers = NoCallers

Marshal ==
    /\ last = NoCall
    /\ \E desc \in Descs, value \in Values, dberr \in BOOLEAN :
         LET r == MultiMarshal(Store, configs, desc, value, dberr)
         IN /\ configs' = r.cfg
            /\ last' = [op |-> "Marshal", desc |-> desc, value |-> value,
                        failed |-> dberr, err |-> r.err]
    /\ UNCHANGED <<codecVars, bolt, nraw, send, callers>>

\* A call inside the loop of Unmarshal(Key) or Delete(Key).
InLoop == last.op \in {"Unmarshal.loop", "Delete.loop"}

\* Unmarshal is called: with a Key it runs the first iteration of its loop,
\* with any other descriptor it runs whole.
Unmarshal ==
    /\ last = NoCall
    /\ \E desc \in Descs :
         \E failing \in Failing(desc) :
           IF desc.type = "Key"
           THEN last' = UnmarshalProbe(Store, configs,
                                       [op |-> "Unmarshal.loop", desc |-> desc,
                                        failing |-> failing \cap {Store.marshaller[1]},
                                        i |-> 1, raced |-> {}],
                                       Dest)
           ELSE LET r == MultiUnmarshal(Store, configs, desc, Dest, failing)
                IN last' = [op |-> "Unmarshal", desc |-> desc, failing |-> failing,
                            err |-> r.err, rdesc |-> r.desc, value |-> r.value,
                            panic |-> r.panic, raced |-> {}]
    /\ UNCHANGED <<codecVars, configs, bolt, nraw, send, callers>>

\* The next iteration of the loop of Unmarshal(Key).
UnmarshalNext ==
    /\ last.op = "Unmarshal.loop"
    /\ \E failing \in {{}, {Store.marshaller[last.i]}} :
         last' = UnmarshalProbe(Store, configs,
                                [last EXCEPT !.failing = @ \cup failing], Dest)
    /\ UNCHANGED <<codecVars, configs, bolt, nraw, send, callers>>

\* Delete is called: with a Key it runs the first iteration of its loop,
\* with any other descriptor it runs whole.
Delete ==
    /\ last = NoCall
    /\ \E desc \in Descs :
         \E failing \in Failing(desc) :
           IF desc.type = "Key"
           THEN LET r == DeleteAttempt(Store, configs,
                                       [op |-> "Delete.loop", desc |-> desc,
                                        failing |-> failing \cap {Store.marshaller[1]},
                                        i |-> 1, nonexisting |-> 0,
                                        errors |-> <<>>, reports |-> <<>>,
                                        raced |-> {}])
                IN configs' = r.cfg /\ last' = r.last
           ELSE LET r == MultiDelete(Store, configs, desc, failing)
                IN /\ configs' = r.cfg
                   /\ last' = [op |-> "Delete", desc |-> desc, failing |-> failing,
                               err |-> r.err, reports |-> <<>>, raced |-> {}]
    /\ UNCHANGED <<codecVars, bolt, nraw, send, callers>>

\* The next iteration of the loop of Delete(Key).
DeleteNext ==
    /\ last.op = "Delete.loop"
    /\ \E failing \in {{}, {Store.marshaller[last.i]}} :
         LET r == DeleteAttempt(Store, configs, [last EXCEPT !.failing = @ \cup failing])
         IN configs' = r.cfg /\ last' = r.last
    /\ UNCHANGED <<codecVars, bolt, nraw, send, callers>>

List ==
    /\ last = NoCall
    /\ \E dberr \in BOOLEAN :
         LET r == MultiList(Store, configs, dberr)
         IN last' = [op |-> "List", descs |-> r.descs, err |-> r.err]
    /\ UNCHANGED <<codecVars, configs, bolt, nraw, send, callers>>

\* The caller passes to Unmarshal one of the descriptors List just returned.
UnmarshalListed ==
    /\ last.op = "List"
    /\ last.err = Nil
    /\ \E i \in 1..Len(last.descs) :
         LET r == MultiUnmarshal(Store, configs, last.descs[i], Dest, {})
         IN last' = [op |-> "UnmarshalListed", desc |-> last.descs[i],
                     name |-> LoaderList(configs, Store.scope, FALSE).names[i],
                     err |-> r.err, rdesc |-> r.desc, value |-> r.value,
                     panic |-> r.panic]
    /\ UNCHANGED <<codecVars, configs, bolt, nraw, send, callers>>

\* The caller passes to Marshal a descriptor that List or Unmarshal just
\* returned; from is the name of the entry the descriptor was obtained from.
MarshalReturned ==
    /\ last.op \in {"List", "Unmarshal", "UnmarshalListed"}
    /\ last.err = Nil
    /\ last.op # "List" => (~last.panic /\ last.rdesc # NilDesc)
    /\ \E i \in 1..(IF last.op = "List" THEN Len(last.descs) ELSE 1),
          value \in Values, dberr \in BOOLEAN :
         LET desc == IF last.op = "List" THEN last.descs[i] ELSE last.rdesc
             from == CASE last.op = "List" ->
                            LoaderList(configs, Store.scope, FALSE).names[i]
                       [] last.op = "UnmarshalListed" -> last.name
                       [] last.op = "Unmarshal" -> NameOf(last.desc.k, last.rdesc.m)
             r == MultiMarshal(Store, configs, desc, value, dberr)
         IN /\ configs' = r.cfg
            /\ last' = [op |-> "MarshalReturned", desc |-> desc, from |-> from,
                        value |-> value, failed |-> dberr, err |-> r.err]
    /\ UNCHANGED <<codecVars, bolt, nraw, send, callers>>

\* Another user of the database writes a row of the scope directly: a
\* zero-length payload or one that no format decodes.  It does so between
\* two calls of the caller or between two iterations of a loop.
RawWrite ==
    /\ last = NoCall \/ InLoop
    /\ nraw < MaxRaw
    /\ \E name \in RawNames, data \in {<<>>, Garbage} :
         /\ configs' = LoaderWrite(configs, Store.scope, name, data, FALSE).cfg
         /\ last' = IF InLoop
                    THEN [last EXCEPT !.raced = @ \cup
                            ({name} \cap ({pathForKey(last.desc.k, m) : m \in Formats}
                                            \cup {EncodeKey(last.desc.k)}))]
                    ELSE last
    /\ nraw' = nraw + 1
    /\ UNCHANGED <<codecVars, bolt, send, callers>>

\* The caller has looked at the results of its call and is ready for the next.
Return ==
    /\ last # NoCall
    /\ ~InLoop
    /\ last' = NoCall
    /\ UNCHANGED <<codecVars, configs, bolt, nraw, send, callers>>

MultiNext ==
    \/ Marshal \/ Unmarshal \/ UnmarshalNext \/ Delete \/ DeleteNext \/ List
    \/ UnmarshalListed \/ MarshalReturned \/ RawWrite \/ Return

Spec == MultiInit /\ [][MultiNext]_vars

(***************************************************************************)
(* The two databases under check.  Loaders of the scopes "app/ns" and      *)
(* "app" are used directly; on scope "app/ns" of the SQLite database sit a *)
(* SQLiteStore, a SimpleStore (JSON) and the MultiFormat store above, and  *)
(* on the bucket "app/ns" of the bbolt file a BoltStore.                   *)
(***************************************************************************)
ScopeNs == storeScope(App, <<Ns>>)
ScopeApp == storeScope(App, <<>>)
Scopes == {ScopeNs, ScopeApp}
Simple == [scope |-> ScopeNs, marshaller |-> Json]
\* Names read and deleted, and the rows and bucket entries that get written.
BackendNames == {Q} \cup {NameOf(Q, m) : m \in Formats}
SqlRows == {<<ScopeNs, n>> : n \in BackendNames} \cup {<<ScopeApp, Q>>}
BoltEntries == {<<ScopeNs, Q>>, <<ScopeApp, Q>>}
BackendData == {<<>>, MarshalValue(Json, "A")}
BackendDescs == {Key(Q)} \cup {FormatKey(Q, m) : m \in Formats}

BackendsInit ==
    /\ cin = <<>>
    /\ cop = "none"
    /\ cout = Returned(<<>>)
    /\ configs = NoRows
    /\ bolt = NoBuckets
    /\ last = NoCall
    /\ nraw = 0
    /\ send = NoSend
    /\ callers = NoCallers

SqlWrite ==
    /\ last = NoCall
    /\ \E p \in SqlRows, data \in BackendData, dberr \in BOOLEAN :
         LET r == LoaderWrite(configs, p[1], p[2], data, dberr)
         IN /\ configs' = r.cfg
            /\ last' = [op |-> "sqlite.Write", scope |-> p[1], name |-> p[2],
                        failed |-> dberr, err |-> r.err]
    /\ UNCHANGED <<codecVars, bolt, nraw, send, callers>>

SqlRead ==
    /\ last = NoCall
    /\ \E scope \in Scopes, name \in BackendNames, dberr \in BOOLEAN :
         LET r == LoaderRead(configs, scope, name, dberr)
         IN last' = [op |-> "sqlite.Read", scope |-> scope, name |-> name,
                     failed |-> dberr, err |-> r.err, data |-> r.data]
    /\ UNCHANGED <<codecVars, configs, bolt, nraw, send, callers>>

SqlDelete ==
    /\ last = NoCall
    /\ \E scope \in Scopes, name \in BackendNames, dberr \in BOOLEAN :
         LET r == LoaderDelete(configs, scope, name, dberr)
         IN /\ configs' = r.cfg
            /\ last' = [op |-> "sqlite.Delete", scope |-> scope, name |-> name,
                        failed |-> dberr, err |-> r.err]
    /\ UNCHANGED <<codecVars, bolt, nraw, send, callers>>

\* Bolt.Open: newLoader makes the bucket of the scope.
BoltOpen ==
    /\ last = NoCall
    /\ \E scope \in Scopes, txerr \in BOOLEAN :
         LET r == boltNewLoader(bolt, scope, txerr)
         IN /\ bolt' = r.db
            /\ last' = [op |-> "bbolt.Open", scope |-> scope, failed |-> txerr,
                        err |-> r.err]
    /\ UNCHANGED <<codecVars, configs, nraw, send, callers>>

\* The calls on a bbolt loader or store need the loader that Open returned.
BoltWrite ==
    /\ last = NoCall
    /\ \E p \in BoltEntries, data \in BackendData, txerr \in BOOLEAN :
         /\ p[1] \in DOMAIN bolt
         /\ LET r == BoltLoaderWrite(bolt, p[1], p[2], data, txerr)
            IN /\ bolt' = r.db
               /\ last' = [op |-> "bbolt.Write", scope |-> p[1], name |-> p[2],
                           failed |-> txerr, err |-> r.err]
    /\ UNCHANGED <<codecVars, configs, nraw, send, callers>>

BoltRead ==
    /\ last = NoCall
    /\ \E scope \in DOMAIN bolt, name \in BackendNames, txerr \in BOOLEAN :
         LET r == BoltLoaderRead(bolt, scope, name, txerr)
         IN last' = [op |-> "bbolt.Read", scope |-> scope, name |-> name,
                     failed |-> txerr, err |-> r.err, data |-> r.data]
    /\ UNCHANGED <<codecVars, configs, bolt, nraw, send, callers>>

BoltDelete ==
    /\ last = NoCall
    /\ \E scope \in DOMAIN bolt, name \in BackendNames, txerr \in BOOLEAN :
         LET r == BoltLoaderDelete(bolt, scope, name, txerr)
         IN /\ bolt' = r.db
            /\ last' = [op |-> "bbolt.Delete", scope |-> scope, name |-> name,
                        failed |-> txerr, err |-> r.err]
    /\ UNCHANGED <<codecVars, configs, nraw, send, callers>>

SQLiteStoreUnmarshalCall ==
    /\ last = NoCall
    /\ \E name \in BackendNames, dberr \in BOOLEAN :
         LET r == SQLiteStoreUnmarshal(ScopeNs, configs, name, Dest, dberr)
         IN last' = [op |-> "SQLiteStore.Unmarshal", name |-> name, failed |-> dberr,
                     err |-> r.err, rdesc |-> r.desc, value |-> r.value]
    /\ UNCHANGED <<codecVars, configs, bolt, nraw, send, callers>>

BoltStoreUnmarshalCall ==
    /\ last = NoCall
    /\ ScopeNs \in DOMAIN bolt
    /\ \E desc \in BackendDescs, txerr \in BOOLEAN :
         LET r == BoltStoreUnmarshal(ScopeNs, bolt, desc, Dest, txerr)
         IN last' = [op |-> "BoltStore.Unmarshal", desc |-> desc, failed |-> txerr,
                     err |-> r.err, rdesc |-> r.desc, value |-> r.value]
    /\ UNCHANGED <<codecVars, configs, bolt, nraw, send, callers>>

SimpleStoreUnmarshalCall ==
    /\ last = NoCall
    /\ \E desc \in BackendDescs, dberr \in BOOLEAN :
         LET r == SimpleUnmarshal(Simple, configs, desc, Dest, dberr)
         IN last' = [op |-> "SimpleStore.Unmarshal", desc |-> desc, failed |-> dberr,
                     err |-> r.err, rdesc |-> r.desc, value |-> r.value]
    /\ UNCHANGED <<codecVars, configs, bolt, nraw, send, callers>>

\* MultiFormat.Unmarshal is called: with a Key it runs the first iteration of
\* its loop, one loader.Read, and with a FormatKey its single load.
MultiFormatUnmarshalCall ==
    /\ last = NoCall
    /\ \E desc \in BackendDescs :
         \E failing \in Failing(desc) :
           IF desc.type = "Key"
           THEN LET r == UnmarshalProbe(Store, configs,
                                        [op |-> "Unmarshal.loop", desc |-> desc,
                                         failing |-> failing \cap {Store.marshaller[1]},
                                         i |-> 1, raced |-> {}],
                                        Dest)
                IN last' = IF r.op = "Unmarshal.loop" THEN r
                           ELSE [op |-> "MultiFormat.Unmarshal", desc |-> desc,
                                 failing |-> r.failing, failed |-> r.failing # {},
                                 err |-> r.err, rdesc |-> r.rdesc,
                                 value |-> r.value, raced |-> r.raced]
           ELSE LET r == MultiUnmarshal(Store, configs, desc, Dest, failing)
                IN last' = [op |-> "MultiFormat.Unmarshal", desc |-> desc,
                            failing |-> failing, failed |-> failing # {},
                            err |-> r.err, rdesc |-> r.desc,
                            value |-> r.value, raced |-> {}]
    /\ UNCHANGED <<codecVars, configs, bolt, nraw, send, callers>>

\* The next iteration of the loop of MultiFormat.Unmarshal(Key): the read
\* of the next format, on the table as it is now.
MultiFormatUnmarshalNext ==
    /\ last.op = "Unmarshal.loop"
    /\ \E failing \in {{}, {Store.marshaller[last.i]}} :
         LET r == UnmarshalProbe(Store, configs,
                                 [last EXCEPT !.failing = @ \cup failing], Dest)
         IN last' = IF r.op = "Unmarshal.loop" THEN r
                    ELSE [op |-> "MultiFormat.Unmarshal", desc |-> r.desc,
                          failing |-> r.failing, failed |-> r.failing # {},
                          err |-> r.err, rdesc |-> r.rdesc,
                          value |-> r.value, raced |-> r.raced]
    /\ UNCHANGED <<codecVars, configs, bolt, nraw, send, callers>>

\* Another user of the database writes, with Loader.Write, an entry of the
\* key of the running call between two iterations of its loop.
OtherWrite ==
    /\ InLoop
    /\ \E m \in Formats, data \in BackendData :
         /\ configs' = LoaderWrite(configs, Store.scope,
                                   pathForKey(last.desc.k, m), data, FALSE).cfg
         /\ last' = [last EXCEPT !.raced = @ \cup {pathForKey(last.desc.k, m)}]
    /\ UNCHANGED <<codecVars, bolt, nraw, send, callers>>

BackendsNext ==
    \/ SqlWrite \/ SqlRead \/ SqlDelete
    \/ BoltOpen \/ BoltWrite \/ BoltRead \/ BoltDelete
    \/ SQLiteStoreUnmarshalCall \/ BoltStoreUnmarshalCall
    \/ SimpleStoreUnmarshalCall
    \/ MultiFormatUnmarshalCall \/ MultiFormatUnmarshalNext \/ OtherWrite
    \/ Return

SpecBackends == BackendsInit /\ [][BackendsNext]_vars

(***************************************************************************)
(* The SimpleStore under check: NewSimple(loader, marshal.Toml) on the     *)
(* loader of scope "app/ns".  Keys are "q", "a/b%" and "q.toml".           *)
(***************************************************************************)
SimpleToml == [scope |-> ScopeNs, marshaller |-> Toml]
SimpleKeys == {Q, <<97, Slash, 98, Percent>>, Q \o <<Dot>> \o Extension(Toml), <<Nul>>}
SimpleDescs == {Key(k) : k \in SimpleKeys} \cup {FormatKey(Q, Json), NilDesc}
SimpleNames == {simplePathForKey(SimpleToml, k) : k \in SimpleKeys}

SimpleStoreMarshal ==
    /\ last = NoCall
    /\ \E desc \in SimpleDescs, value \in Values, dberr \in BOOLEAN :
         LET r == SimpleMarshal(SimpleToml, configs, desc, value, dberr)
         IN /\ configs' = r.cfg
            /\ last' = [op |-> "SimpleStore.Marshal", desc |-> desc, value |-> value,
                        failed |-> dberr, err |-> r.err]
    /\ UNCHANGED <<codecVars, bolt, nraw, send, callers>>

SimpleStoreUnmarshal ==
    /\ last = NoCall
    /\ \E desc \in SimpleDescs, dberr \in BOOLEAN :
         LET r == SimpleUnmarshal(SimpleToml, configs, desc, Dest, dberr)
         IN last' = [op |-> "SimpleStore.Unmarshal", desc |-> desc, failed |-> dberr,
                     err |-> r.err, rdesc |-> r.desc, value |-> r.value]
    /\ UNCHANGED <<codecVars, configs, bolt, nraw, send, callers>>

SimpleStoreDelete ==
    /\ last = NoCall
    /\ \E desc \in SimpleDescs, dberr \in BOOLEAN :
         LET r == SimpleDelete(SimpleToml, configs, desc, dberr)
         IN /\ configs' = r.cfg
            /\ last' = [op |-> "SimpleStore.Delete", desc |-> desc, failed |-> dberr,
                        err |-> r.err]
    /\ UNCHANGED <<codecVars, bolt, nraw, send, callers>>

SimpleStoreList ==
    /\ last = NoCall
    /\ \E dberr \in BOOLEAN :
         LET r == SimpleList(SimpleToml, configs, dberr)
         IN last' = [op |-> "SimpleStore.List", failed |-> dberr, descs |-> r.descs,
                     err |-> r.err]
    /\ UNCHANGED <<codecVars, configs, bolt, nraw, send, callers>>

\* Another user of the loader writes an entry directly: a zero-length
\* payload or one that TOML does not decode.
SimpleRawWrite ==
    /\ last = NoCall
    /\ nraw < MaxRaw
    /\ \E name \in SimpleNames, data \in {<<>>, Garbage} :
         configs' = LoaderWrite(configs, SimpleToml.scope, name, data, FALSE).cfg
    /\ nraw' = nraw + 1
    /\ UNCHANGED <<codecVars, bolt, last, send, callers>>

SimpleNext ==
    \/ SimpleStoreMarshal \/ SimpleStoreUnmarshal \/ SimpleStoreDelete
    \/ SimpleStoreList \/ SimpleRawWrite \/ Return

SpecSimple == BackendsInit /\ [][SimpleNext]_vars

(***************************************************************************)
(* Stores of two scopes on one SQLite database and on one bbolt file:      *)
(* SQLite.Open and Bolt.Open for ("app", "ns") and for ("app").  Keys are  *)
(* "q" and "r"; a SQLiteStore is given string descriptors or Key, a        *)
(* BoltStore Key descriptors.                                              *)
(***************************************************************************)
R == <<114>>
ScopedKeys == {Q, R}
SqlDescs == {StringDesc(k) : k \in ScopedKeys} \cup {Key(Q)}
BoltDescs == {Key(k) : k \in ScopedKeys}

SqlStoreMarshal ==
    /\ last = NoCall
    /\ \E scope \in Scopes, desc \in SqlDescs, value \in Values, dberr \in BOOLEAN :
         LET r == SQLiteStoreMarshal(scope, configs, desc, value, dberr)
         IN /\ configs' = r.cfg
            /\ last' = [op |-> "Marshal", backend |-> "sqlite", scope |-> scope,
                        desc |-> desc, value |-> value, failed |-> dberr, err |-> r.err]
    /\ UNCHANGED <<codecVars, bolt, nraw, send, callers>>

SqlStoreDelete ==
    /\ last = NoCall
    /\ \E scope \in Scopes, desc \in SqlDescs, dberr \in BOOLEAN :
         LET r == SQLiteStoreDelete(scope, configs, desc, dberr)
         IN /\ configs' = r.cfg
            /\ last' = [op |-> "Delete", backend |-> "sqlite", scope |-> scope,
                        desc |-> desc, failed |-> dberr, err |-> r.err]
    /\ UNCHANGED <<codecVars, bolt, nraw, send, callers>>

SqlStoreList ==
    /\ last = NoCall
    /\ \E scope \in Scopes, dberr \in BOOLEAN :
         LET r == SQLiteStoreList(scope, configs, dberr)
         IN last' = [op |-> "List", backend |-> "sqlite", scope |-> scope,
                     failed |-> dberr, descs |-> r.descs, err |-> r.err]
    /\ UNCHANGED <<codecVars, configs, bolt, nraw, send, callers>>

SqlStoreUnmarshal ==
    /\ last = NoCall
    /\ \E scope \in Scopes, name \in ScopedKeys, dberr \in BOOLEAN :
         LET r == SQLiteStoreUnmarshal(scope, configs, name, Dest, dberr)
         IN last' = [op |-> "Unmarshal", backend |-> "sqlite", scope |-> scope,
                     desc |-> StringDesc(name), failed |-> dberr, err |-> r.err,
                     rdesc |-> r.desc, value |-> r.value]
    /\ UNCHANGED <<codecVars, configs, bolt, nraw, send, callers>>

\* The calls on a BoltStore need the store that Bolt.Open returned.
BoltStoreMarshalCall ==
    /\ last = NoCall
    /\ \E scope \in DOMAIN bolt, desc \in BoltDescs, value \in Values, txerr \in BOOLEAN :
         LET r == BoltStoreMarshal(scope, bolt, desc, value, txerr)
         IN /\ bolt' = r.db
            /\ last' = [op |-> "Marshal", backend |-> "bbolt", scope |-> scope,
                        desc |-> desc, value |-> value, failed |-> txerr, err |-> r.err]
    /\ UNCHANGED <<codecVars, configs, nraw, send, callers>>

BoltStoreDeleteCall ==
    /\ last = NoCall
    /\ \E scope \in DOMAIN bolt, desc \in BoltDescs, txerr \in BOOLEAN :
         LET r == BoltStoreDelete(scope, bolt, desc, txerr)
         IN /\ bolt' = r.db
            /\ last' = [op |-> "Delete", backend |-> "bbolt", scope |-> scope,
                        desc |-> desc, failed |-> txerr, err |-> r.err]
    /\ UNCHANGED <<codecVars, configs, nraw, send, callers>>

BoltStoreListCall ==
    /\ last = NoCall
    /\ \E scope \in DOMAIN bolt, txerr \in BOOLEAN :
         LET r == BoltStoreList(scope, bolt, txerr)
         IN last' = [op |-> "List", backend |-> "bbolt", scope |-> scope,
                     failed |-> txerr, descs |-> r.descs, err |-> r.err]
    /\ UNCHANGED <<codecVars, configs, bolt, nraw, send, callers>>

BoltStoreUnmarshalScoped ==
    /\ last = NoCall
    /\ \E scope \in DOMAIN bolt, desc \in BoltDescs, txerr \in BOOLEAN :
         LET r == BoltStoreUnmarshal(scope, bolt, desc, Dest, txerr)
         IN last' = [op |-> "Unmarshal", backend |-> "bbolt", scope |-> scope,
                     desc |-> desc, failed |-> txerr, err |-> r.err,
                     rdesc |-> r.desc, value |-> r.value]
    /\ UNCHANGED <<codecVars, configs, bolt, nraw, send, callers>>

ScopedNext ==
    \/ SqlStoreMarshal \/ SqlStoreDelete \/ SqlStoreList \/ SqlStoreUnmarshal
    \/ BoltOpen
    \/ BoltStoreMarshalCall \/ BoltStoreDeleteCall \/ BoltStoreListCall
    \/ BoltStoreUnmarshalScoped
    \/ Return

SpecScoped == BackendsInit /\ [][ScopedNext]_vars

(***************************************************************************)
(* Callers that pass any descriptor, nil and foreign variants included, to *)
(* Marshal, Unmarshal and Delete of a SimpleStore (TOML) and a MultiFormat *)
(* store on scope "app/ns" of the SQLite database and of a BoltStore on    *)
(* bucket "app/ns".  dberr tells whether the database fails whatever       *)
(* statement or transaction the call runs.                                 *)
(***************************************************************************)
\* A Descriptor implemented outside package config: neither Key nor
\* *multiDescriptor.
OtherDesc(k) == [type |-> "other", k |-> k]
UsageDescs == {Key(Q), FormatKey(Q, Json), OtherDesc(Q), NilDesc}
UsageFailing(dberr) == IF dberr THEN Formats ELSE {}

UsageStores == {"SimpleStore", "MultiFormat", "BoltStore"}
\* A store can be called once it was opened: Bolt.Open makes the bucket.
Opened(store) == store = "BoltStore" => ScopeNs \in DOMAIN bolt

\* store.Marshal(desc, value) on a config.Store of one of the three types.
UsageMarshal ==
    /\ last = NoCall
    /\ \E store \in UsageStores, desc \in UsageDescs, value \in Values, dberr \in BOOLEAN :
         /\ Opened(store)
         /\ LET r == CASE store = "SimpleStore" ->
                          SimpleMarshal(SimpleToml, configs, desc, value, dberr)
                     [] store = "MultiFormat" ->
                          MultiMarshal(Store, configs, desc, value, dberr)
                     [] store = "BoltStore" ->
                          BoltStoreMarshal(ScopeNs, bolt, desc, value, dberr)
            IN /\ configs' = IF store = "BoltStore" THEN configs ELSE r.cfg
               /\ bolt' = IF store = "BoltStore" THEN r.db ELSE bolt
               /\ last' = [op |-> "Marshal", store |-> store, desc |-> desc,
                           failed |-> dberr, err |-> r.err, rdesc |-> NilDesc,
                           value |-> Dest]
    /\ UNCHANGED <<codecVars, nraw, send, callers>>

\* store.Unmarshal(desc, &value).  On the MultiFormat store with a Key it
\* runs the first iteration of the loop of MultiFormat.Unmarshal; any other
\* call makes at most one loader call and runs whole.
UsageUnmarshal ==
    /\ last = NoCall
    /\ \E store \in UsageStores, desc \in UsageDescs, dberr \in BOOLEAN :
         /\ Opened(store)
         /\ IF store = "MultiFormat" /\ desc.type = "Key"
            THEN LET r == UnmarshalProbe(Store, configs,
                                         [op |-> "Unmarshal.loop", desc |-> desc,
                                          failing |-> UsageFailing(dberr),
                                          i |-> 1, raced |-> {}],
                                         Dest)
                 IN last' = IF r.op = "Unmarshal.loop" THEN r
                            ELSE [op |-> "Unmarshal", store |-> store, desc |-> desc,
                                  failed |-> dberr, err |-> r.err,
                                  rdesc |-> r.rdesc, value |-> r.value,
                                  raced |-> r.raced]
            ELSE LET r == CASE store = "SimpleStore" ->
                               SimpleUnmarshal(SimpleToml, configs, desc, Dest, dberr)
                          [] store = "MultiFormat" ->
                               MultiUnmarshal(Store, configs, desc, Dest,
                                              UsageFailing(dberr))
                          [] store = "BoltStore" ->
                               BoltStoreUnmarshal(ScopeNs, bolt, desc, Dest, dberr)
                 IN last' = [op |-> "Unmarshal", store |-> store, desc |-> desc,
                             failed |-> dberr, err |-> r.err, rdesc |-> r.desc,
                             value |-> r.value, raced |-> {}]
    /\ UNCHANGED <<codecVars, configs, bolt, nraw, send, callers>>

\* The next iteration of the loop of MultiFormat.Unmarshal(Key).
UsageUnmarshalNext ==
    /\ last.op = "Unmarshal.loop"
    /\ LET r == UnmarshalProbe(Store, configs, last, Dest)
       IN last' = IF r.op = "Unmarshal.loop" THEN r
                  ELSE [op |-> "Unmarshal", store |-> "MultiFormat",
                        desc |-> r.desc, failed |-> r.failing # {},
                        err |-> r.err, rdesc |-> r.rdesc, value |-> r.value,
                        raced |-> r.raced]
    /\ UNCHANGED <<codecVars, configs, bolt, nraw, send, callers>>

\* store.Delete(desc).  On the MultiFormat store with a Key it runs the first
\* iteration of the loop of MultiFormat.Delete; any other call makes at most
\* one loader call and runs whole.
UsageDelete ==
    /\ last = NoCall
    /\ \E store \in UsageStores, desc \in UsageDescs, dberr \in BOOLEAN :
         /\ Opened(store)
         /\ IF store = "MultiFormat" /\ desc.type = "Key"
            THEN LET r == DeleteAttempt(Store, configs,
                                        [op |-> "Delete.loop", desc |-> desc,
                                         failing |-> UsageFailing(dberr),
                                         i |-> 1, nonexisting |-> 0,
                                         errors |-> <<>>, reports |-> <<>>,
                                         raced |-> {}])
                 IN /\ configs' = r.cfg
                    /\ bolt' = bolt
                    /\ last' = IF r.last.op = "Delete.loop" THEN r.last
                               ELSE [op |-> "Delete", store |-> store, desc |-> desc,
                                     failed |-> dberr, err |-> r.last.err,
                                     rdesc |-> NilDesc, value |-> Dest,
                                     raced |-> r.last.raced]
            ELSE LET r == CASE store = "SimpleStore" ->
                               SimpleDelete(SimpleToml, configs, desc, dberr)
                          [] store = "MultiFormat" ->
                               MultiDelete(Store, configs, desc, UsageFailing(dberr))
                          [] store = "BoltStore" ->
                               BoltStoreDelete(ScopeNs, bolt, desc, dberr)
                 IN /\ configs' = IF store = "BoltStore" THEN configs ELSE r.cfg
                    /\ bolt' = IF store = "BoltStore" THEN r.db ELSE bolt
                    /\ last' = [op |-> "Delete", store |-> store, desc |-> desc,
                                failed |-> dberr, err |-> r.err, rdesc |-> NilDesc,
                                value |-> Dest, raced |-> {}]
    /\ UNCHANGED <<codecVars, nraw, send, callers>>

\* The next iteration of the loop of MultiFormat.Delete(Key).
UsageDeleteNext ==
    /\ last.op = "Delete.loop"
    /\ LET r == DeleteAttempt(Store, configs, last)
       IN /\ configs' = r.cfg
          /\ last' = IF r.last.op = "Delete.loop" THEN r.last
                     ELSE [op |-> "Delete", store |-> "MultiFormat",
                           desc |-> r.last.desc, failed |-> r.last.failing # {},
                           err |-> r.last.err, rdesc |-> NilDesc, value |-> Dest,
                           raced |-> r.last.raced]
    /\ UNCHANGED <<codecVars, bolt, nraw, send, callers>>

UsageNext ==
    \/ UsageMarshal \/ UsageUnmarshal \/ UsageUnmarshalNext
    \/ UsageDelete \/ UsageDeleteNext \/ OtherWrite \/ BoltOpen \/ Return

SpecUsage == BackendsInit /\ [][UsageNext]_vars

(***************************************************************************)
(* factory.New: flags are [StoreType, DirectoryMode, DirectoryFormat,      *)
(* DirectoryPath] as they stand once the modifiers have run.  An opener is *)
(* the closure New returns (it captures the flags); NilOpener is nil.      *)
(***************************************************************************)
directoryModeSimple == "simple"
directoryModeMulti == "multi"
NilOpener == [kind |-> "nil"]
NilStore == [type |-> "nil"]
ErrConfig(msg) == [kind |-> "config", msg |-> msg]

directoryMarshaller(format) ==
    LET f == IF format = "" THEN "toml" ELSE format
    IN CASE f = "toml" -> [m |-> Toml, err |-> Nil]
         [] f = "json" -> [m |-> Json, err |-> Nil]
         [] f = "yaml" -> [m |-> Yaml, err |-> Nil]
         [] f = "gob" -> [m |-> Gob, err |-> Nil]
         [] OTHER -> [m |-> NilM, err |-> ErrConfig("unknown directory format")]

\* New: dserr tells whether datastore.New fails.
FactoryNew(flags, dserr) ==
    CASE flags.StoreType = "datastore" ->
           IF dserr THEN [opener |-> NilOpener, err |-> ErrBackend]
           ELSE [opener |-> [kind |-> "datastore", flags |-> flags], err |-> Nil]
      [] flags.StoreType = "directory" ->
           [opener |-> [kind |-> "directory", flags |-> flags], err |-> Nil]
      [] flags.StoreType = "sqlite" ->
           [opener |-> [kind |-> "sqlite", flags |-> flags], err |-> Nil]
      [] OTHER ->
           [opener |-> NilOpener, err |-> ErrConfig("unknown config store type")]

\* A call of the opener New returned: ioerr tells whether opening the
\* directory, the database or the datastore namespace fails.
OpenerCall(opener, ioerr) ==
    CASE opener.kind = "datastore" ->
           IF ioerr THEN [store |-> NilStore, err |-> ErrBackend]
           ELSE [store |-> [type |-> "Datastore"], err |-> Nil]
      [] opener.kind = "sqlite" ->
           IF ioerr THEN [store |-> NilStore, err |-> ErrBackend]
           ELSE [store |-> [type |-> "SQLiteStore"], err |-> Nil]
      [] opener.kind = "directory" ->
           IF ioerr THEN [store |-> NilStore, err |-> ErrBackend]
           ELSE IF opener.flags.DirectoryMode \in {"", directoryModeSimple}
           THEN LET dm == directoryMarshaller(opener.flags.DirectoryFormat)
                IN IF dm.err # Nil THEN [store |-> NilStore, err |-> dm.err]
                   ELSE [store |-> [type |-> "SimpleStore", marshaller |-> dm.m],
                         err |-> Nil]
           ELSE IF opener.flags.DirectoryMode = directoryModeMulti
           THEN IF opener.flags.DirectoryFormat # ""
                THEN [store |-> NilStore,
                      err |-> ErrConfig("directory format is only valid for simple mode")]
                ELSE [store |-> [type |-> "MultiFormat"], err |-> Nil]
           ELSE [store |-> NilStore, err |-> ErrConfig("unknown directory mode")]

StoreTypes == {"directory", "datastore", "sqlite", "unknown-type"}
DirectoryModes == {"", directoryModeSimple, directoryModeMulti, "bogus"}
DirectoryFormats == {"", "toml", "json", "yaml", "gob", "xml"}
FlagSets ==
    [StoreType : StoreTypes, DirectoryMode : DirectoryModes,
     DirectoryFormat : DirectoryFormats, DirectoryPath : {"", "/tmp/cfg"}]

New ==
    /\ last = NoCall
    /\ \E flags \in FlagSets, dserr \in BOOLEAN :
         LET r == FactoryNew(flags, dserr)
         IN last' = [op |-> "New", flags |-> flags, opener |-> r.opener, err |-> r.err]
    /\ UNCHANGED <<codecVars, configs, bolt, nraw, send, callers>>

\* The caller opens a store with the opener New gave it.
Open ==
    /\ last.op = "New"
    /\ last.opener # NilOpener
    /\ \E ioerr \in BOOLEAN :
         LET r == OpenerCall(last.opener, ioerr)
         IN last' = [op |-> "Open", flags |-> last.flags, store |-> r.store,
                     err |-> r.err]
    /\ UNCHANGED <<codecVars, configs, bolt, nraw, send, callers>>

FactoryNext == New \/ Open \/ Return

SpecFactory == BackendsInit /\ [][FactoryNext]_vars

(***************************************************************************)
(* Tracer (package trace).  A tracer is its flags [Enabled, LogRequests,   *)
(* LogResponses, Include, Exclude]; a store is [type, scope] for a         *)
(* SQLiteStore and [type |-> "tracedStore", name, store, logEnabled,       *)
(* logRequests, logResponses] for a traced one.  The result of a call      *)
(* carries events: the lines handed to the logger and the calls made on    *)
(* the underlying store, in order.                                         *)
(***************************************************************************)
NoValue == [nil |-> TRUE]
SomeValue(v) == [nil |-> FALSE, v |-> v]
LogEv(line) == [ev |-> "log", line |-> line]
CallEv(operation, desc, value) ==
    [ev |-> "call", operation |-> operation, desc |-> desc, value |-> value]

RECURSIVE AnyPrefix(_, _)
AnyPrefix(name, prefixes) ==
    IF prefixes = <<>> THEN FALSE
    ELSE HasPrefix(name, Head(prefixes)) \/ AnyPrefix(name, Tail(prefixes))

\* An enabledFor that consults the include list before the exclude list.
enabledForIncludeFirst(t, name) ==
    IF ~t.Enabled /\ ~t.LogRequests /\ ~t.LogResponses THEN FALSE
    ELSE IF Len(t.Include) = 0 THEN ~AnyPrefix(name, t.Exclude)
    ELSE IF AnyPrefix(name, t.Include) THEN TRUE
    ELSE FALSE

enabledFor(t, name) ==
    IF ~t.Enabled /\ ~t.LogRequests /\ ~t.LogResponses THEN FALSE
    ELSE IF AnyPrefix(name, t.Exclude) THEN FALSE
    ELSE IF Len(t.Include) = 0 THEN TRUE
    ELSE AnyPrefix(name, t.Include)

WrapStore(t, name, store) ==
    IF store = NilStore \/ ~enabledFor(t, name) THEN store
    ELSE [type |-> "tracedStore", name |-> name, store |-> store,
          logEnabled |-> t.Enabled, logRequests |-> t.LogRequests,
          logResponses |-> t.LogResponses]

\* fmt.Sprint of a descriptor: "<nil>" for nil, the string itself for a Key
\* or a string, and for the pointer to a multiDescriptor the fields of the
\* struct, "&{" m " " k "}"; the text of the marshaller m is what its type
\* prints, here "<" extension ">".
SprintDesc(desc) ==
    LET nil == <<60, 110, 105, 108, 62>>
    IN IF desc.type = "nil" THEN nil
       ELSE IF desc.type = "multi"
       THEN <<38, 123>>
            \o (IF desc.m = NilM THEN nil ELSE <<60>> \o Extension(desc.m) \o <<62>>)
            \o <<32>> \o desc.k \o <<125>>
       ELSE desc.k

logLine(ts, operation, key, status, value, err) ==
    <<LogEv([namespace |-> ts.name, operation |-> operation, status |-> status,
             key |-> key, err |-> err, response |-> value])>>

logStart(ts, operation, key) ==
    IF ~ts.logRequests THEN <<>>
    ELSE logLine(ts, operation, key, "start", NoValue, Nil)

logEnd(ts, operation, key, err, value) ==
    IF ~ts.logEnabled /\ ~ts.logResponses /\ err = Nil THEN <<>>
    ELSE IF err # Nil THEN logLine(ts, operation, key, "error", NoValue, err)
    ELSE IF ts.logResponses /\ ~value.nil
         THEN logLine(ts, operation, key, "success", value, Nil)
    ELSE logLine(ts, operation, key, "success", NoValue, Nil)

\* The four methods of a store that is a SQLiteStore or a tracedStore around
\* one.  Each returns the table after the call, the results and the events.
RECURSIVE StoreList(_, _, _)
StoreList(st, cfg, dberr) ==
    IF st.type = "tracedStore"
    THEN LET r == StoreList(st.store, cfg, dberr)
         IN [r EXCEPT !.events = logStart(st, "List", <<>>) \o r.events
                                   \o logEnd(st, "List", <<>>, r.err, SomeValue(r.descs))]
    ELSE LET r == SQLiteStoreList(st.scope, cfg, dberr)
         IN [cfg |-> cfg, descs |-> r.descs, err |-> r.err,
             events |-> <<CallEv("List", NilDesc, NoValue)>>]

\* A traced Marshal that logs the error and returns nil.
RECURSIVE StoreMarshalDropsError(_, _, _, _, _)
StoreMarshalDropsError(st, cfg, desc, value, dberr) ==
    IF st.type = "tracedStore"
    THEN LET r == StoreMarshalDropsError(st.store, cfg, desc, value, dberr)
         IN [r EXCEPT !.err = Nil,
                      !.events = logStart(st, "Marshal", SprintDesc(desc)) \o r.events
                                   \o logEnd(st, "Marshal", SprintDesc(desc), r.err, NoValue)]
    ELSE LET r == SQLiteStoreMarshal(st.scope, cfg, desc, value, dberr)
         IN [cfg |-> r.cfg, err |-> r.err,
             events |-> <<CallEv("Marshal", desc, SomeValue(value))>>]

RECURSIVE StoreMarshal(_, _, _, _, _)
StoreMarshal(st, cfg, desc, value, dberr) ==
    IF st.type = "tracedStore"
    THEN LET r == StoreMarshal(st.store, cfg, desc, value, dberr)
         IN [r EXCEPT !.events = logStart(st, "Marshal", SprintDesc(desc)) \o r.events
                                   \o logEnd(st, "Marshal", SprintDesc(desc), r.err, NoValue)]
    ELSE LET r == SQLiteStoreMarshal(st.scope, cfg, desc, value, dberr)
         IN [cfg |-> r.cfg, err |-> r.err,
             events |-> <<CallEv("Marshal", desc, SomeValue(value))>>]

RECURSIVE StoreUnmarshal(_, _, _, _, _)
StoreUnmarshal(st, cfg, name, dest, dberr) ==
    IF st.type = "tracedStore"
    THEN LET r == StoreUnmarshal(st.store, cfg, name, dest, dberr)
         IN [r EXCEPT !.events = logStart(st, "Unmarshal", name) \o r.events
                                   \o logEnd(st, "Unmarshal", name, r.err, SomeValue(r.value))]
    ELSE LET r == SQLiteStoreUnmarshal(st.scope, cfg, name, dest, dberr)
         IN [cfg |-> cfg, desc |-> r.desc, err |-> r.err, value |-> r.value,
             events |-> <<CallEv("Unmarshal", StringDesc(name), SomeValue(dest))>>]

RECURSIVE StoreDelete(_, _, _, _)
StoreDelete(st, cfg, desc, dberr) ==
    IF st.type = "tracedStore"
    THEN LET r == StoreDelete(st.store, cfg, desc, dberr)
         IN [r EXCEPT !.events = logStart(st, "Delete", SprintDesc(desc)) \o r.events
                                   \o logEnd(st, "Delete", SprintDesc(desc), r.err, NoValue)]
    ELSE LET r == SQLiteStoreDelete(st.scope, cfg, desc, dberr)
         IN [cfg |-> r.cfg, err |-> r.err,
             events |-> <<CallEv("Delete", desc, NoValue)>>]

\* path.Clean: the shortest path naming the same place.  Empty and "."
\* elements go, ".." takes the element before it with it (at the start of a
\* rooted path it just goes), and the empty result is ".".
Clean(path) ==
    LET RECURSIVE Split(_)
        Split(s) ==
            IF \A i \in 1..Len(s) : s[i] # Slash THEN <<s>>
            ELSE LET i == CHOOSE x \in 1..Len(s) :
                              s[x] = Slash /\ \A y \in 1..(x - 1) : s[y] # Slash
                 IN <<SubSeq(s, 1, i - 1)>> \o Split(SubSeq(s, i + 1, Len(s)))
        rooted == path # <<>> /\ path[1] = Slash
        dotdot == <<Dot, Dot>>
        RECURSIVE Walk(_, _)
        Walk(elems, out) ==
            IF elems = <<>> THEN out
            ELSE LET e == Head(elems)
                 IN IF e = <<>> \/ e = <<Dot>> THEN Walk(Tail(elems), out)
                    ELSE IF e # dotdot THEN Walk(Tail(elems), Append(out, e))
                    ELSE IF out # <<>> /\ out[Len(out)] # dotdot
                    THEN Walk(Tail(elems), SubSeq(out, 1, Len(out) - 1))
                    ELSE IF rooted THEN Walk(Tail(elems), out)
                    ELSE Walk(Tail(elems), Append(out, e))
        out == Join(Walk(Split(path), <<>>), <<Slash>>)
    IN IF rooted THEN <<Slash>> \o out
       ELSE IF out = <<>> THEN <<Dot>>
       ELSE out

\* path.Join of the application and the namespaces: "" when all are empty,
\* else the non-empty ones joined with "/" and cleaned.
storeName(app, namespace) ==
    IF app = <<>> /\ Len(namespace) = 0 THEN <<>>
    ELSE LET parts == SelectSeq(<<app>> \o namespace, LAMBDA part : part # <<>>)
         IN IF parts = <<>> THEN <<>> ELSE Clean(Join(parts, <<Slash>>))

\* SQLite.Open: ioerr tells whether preparing the statements fails.
SQLiteOpen(app, namespaces, ioerr) ==
    IF ioerr THEN [store |-> NilStore, err |-> ErrBackend]
    ELSE [store |-> [type |-> "SQLiteStore", scope |-> storeScope(app, namespaces)],
          err |-> Nil]

\* The opener that WrapOpener returns for the opener SQLite.Open.
WrappedOpener(t, app, namespace, ioerr) ==
    LET r == SQLiteOpen(app, namespace, ioerr)
    IN IF r.err # Nil THEN [store |-> NilStore, err |-> r.err]
       ELSE [store |-> WrapStore(t, storeName(app, namespace), r.store), err |-> Nil]

(***************************************************************************)
(* The tracer under check: a caller wraps the SQLiteStore of ("app", "ns") *)
(* or of ("app"), or opens one through a wrapped opener, and makes one     *)
(* call on the store it got.                                               *)
(***************************************************************************)
Other == <<111>>
TracerFlags ==
    [Enabled : BOOLEAN, LogRequests : BOOLEAN, LogResponses : BOOLEAN,
     Include : {<<>>, <<App>>, <<Other>>, <<Other, App>>},
     Exclude : {<<>>, <<ScopeNs>>, <<Other, ScopeNs>>}]
WrapNames == {ScopeNs, ScopeApp}
OpenArgs == {<<App, <<Ns>>>>, <<App, <<>>>>, <<App, <<<<Dot>>>>>>, <<App, <<Ns \o <<Slash>>>>>>}
TraceDescs == {StringDesc(Q), Key(Q), FormatKey(Q, Json), NilDesc}

TracerWrapStore ==
    /\ last = NoCall
    /\ \E t \in TracerFlags, name \in WrapNames, nilstore \in BOOLEAN :
         LET store == IF nilstore THEN NilStore
                      ELSE [type |-> "SQLiteStore", scope |-> name]
         IN last' = [op |-> "WrapStore", tracer |-> t, name |-> name, inner |-> store,
                     err |-> Nil, store |-> WrapStore(t, name, store)]
    /\ UNCHANGED <<codecVars, configs, bolt, nraw, send, callers>>

TracerWrapOpener ==
    /\ last = NoCall
    /\ \E t \in TracerFlags, args \in OpenArgs, ioerr \in BOOLEAN :
         LET r == WrappedOpener(t, args[1], args[2], ioerr)
         IN last' = [op |-> "WrapOpener", tracer |-> t, name |-> storeName(args[1], args[2]),
                     inner |-> SQLiteOpen(args[1], args[2], ioerr).store,
                     err |-> r.err, store |-> r.store, failed |-> ioerr]
    /\ UNCHANGED <<codecVars, configs, bolt, nraw, send, callers>>

\* The calls on the store that WrapStore or the wrapped opener returned.
HasStore == last.op \in {"WrapStore", "WrapOpener"} /\ last.store # NilStore

TracedList ==
    /\ HasStore
    /\ \E dberr \in BOOLEAN :
         LET r == StoreList(last.store, configs, dberr)
         IN /\ configs' = r.cfg
            /\ last' = [op |-> "traced.List", store |-> last.store, inner |-> last.inner,
                        desc |-> NilDesc, arg |-> NoValue, failed |-> dberr,
                        descs |-> r.descs, rdesc |-> NilDesc, value |-> Dest,
                        err |-> r.err, events |-> r.events]
    /\ UNCHANGED <<codecVars, bolt, nraw, send, callers>>

TracedMarshal ==
    /\ HasStore
    /\ \E desc \in TraceDescs, value \in Values, dberr \in BOOLEAN :
         LET r == StoreMarshal(last.store, configs, desc, value, dberr)
         IN /\ configs' = r.cfg
            /\ last' = [op |-> "traced.Marshal", store |-> last.store, inner |-> last.inner,
                        desc |-> desc, arg |-> SomeValue(value), failed |-> dberr,
                        descs |-> <<>>, rdesc |-> NilDesc, value |-> Dest,
                        err |-> r.err, events |-> r.events]
    /\ UNCHANGED <<codecVars, bolt, nraw, send, callers>>

TracedUnmarshal ==
    /\ HasStore
    /\ \E name \in {Q, R}, dberr \in BOOLEAN :
         LET r == StoreUnmarshal(last.store, configs, name, Dest, dberr)
         IN /\ configs' = r.cfg
            /\ last' = [op |-> "traced.Unmarshal", store |-> last.store, inner |-> last.inner,
                        desc |-> StringDesc(name), arg |-> SomeValue(Dest), failed |-> dberr,
                        descs |-> <<>>, rdesc |-> r.desc, value |-> r.value,
                        err |-> r.err, events |-> r.events]
    /\ UNCHANGED <<codecVars, bolt, nraw, send, callers>>

TracedDelete ==
    /\ HasStore
    /\ \E desc \in TraceDescs, dberr \in BOOLEAN :
         LET r == StoreDelete(last.store, configs, desc, dberr)
         IN /\ configs' = r.cfg
            /\ last' = [op |-> "traced.Delete", store |-> last.store, inner |-> last.inner,
                        desc |-> desc, arg |-> NoValue, failed |-> dberr,
                        descs |-> <<>>, rdesc |-> NilDesc, value |-> Dest,
                        err |-> r.err, events |-> r.events]
    /\ UNCHANGED <<codecVars, bolt, nraw, send, callers>>

TraceNext ==
    \/ TracerWrapStore \/ TracerWrapOpener
    \/ TracedList \/ TracedMarshal \/ TracedUnmarshal \/ TracedDelete
    \/ Return

SpecTrace == BackendsInit /\ [][TraceNext]_vars

(***************************************************************************)
(* Inputs of the codec: every string of at most MaxKeyLen bytes over       *)
(* NUL, '%', '/', '2', 'F', 'f', 'z' and a non-ASCII byte.                 *)
(***************************************************************************)
CodecBytes == {Nul, Percent, Slash, 50, 70, 102, 122, 200}
CodecStrings == UNION {[1..n -> CodecBytes] : n \in 0..MaxKeyLen}

CodecInit ==
    /\ cin \in CodecStrings
    /\ cop = "none"
    /\ cout = Returned(<<>>)
    /\ configs = NoRows
    /\ bolt = NoBuckets
    /\ last = NoCall
    /\ nraw = 0
    /\ send = NoSend
    /\ callers = NoCallers

CallEncodeKey ==
    /\ cop = "none"
    /\ cop' = "encode"
    /\ cout' = Returned(EncodeKey(cin))
    /\ UNCHANGED <<cin, configs, bolt, last, nraw, send, callers>>

CallDecodeKey ==
    /\ cop = "none"
    /\ cop' = "decode"
    /\ cout' = DecodeKeyRun(cin)
    /\ UNCHANGED <<cin, configs, bolt, last, nraw, send, callers>>

CallRoundTrip ==
    /\ cop = "none"
    /\ cop' = "roundtrip"
    /\ cout' = DecodeKeyRun(EncodeKey(cin))
    /\ UNCHANGED <<cin, configs, bolt, last, nraw, send, callers>>

CodecNext == CallEncodeKey \/ CallDecodeKey \/ CallRoundTrip

SpecCodec == CodecInit /\ [][CodecNext]_vars

(***************************************************************************)
(* Package kemail: Send.  The frame of a call of Send is a record: sent    *)
(* is the copy of the recipients that Send walks, idx and attempts the     *)
(* loop variables, sender the open sender (0 for nil, else the number of   *)
(* the Open that returned it), opened the number of senders opened so far, *)
(* and trace what the call did to its collaborators, in order: the Opens   *)
(* of the sender factory (with the recipient being processed), the reports *)
(* to the progress callback with the action each got back, the builds, the *)
(* sends and the closes.                                                   *)
(***************************************************************************)
MaxRecipients == 2
MaxFailures == 2

ProgressSending == "sending"
ProgressSent == "sent"
ProgressError == "error"
ProgressGiveUp == "give_up"

ProgressContinue == "continue"
ProgressSkip == "skip"
ProgressPause == "pause"
ProgressCancel == "cancel"

ErrPaused == [kind |-> "ErrPaused"]
ErrCanceled == [kind |-> "ErrCanceled"]
ErrNoBuilder == [kind |-> "message builder is required"]
ErrBuild == [kind |-> "build"]
ErrNoDialer == [kind |-> "dialer is required for smtp sender"]
ErrUnknownSender == [kind |-> "unknown email sender"]
ErrExceeded(n, rcpt) == [kind |-> "exceeded attempts", n |-> n, rcpt |-> rcpt]

OpenEv(rcpt, id, ok) == [ev |-> "open", rcpt |-> rcpt, id |-> id, ok |-> ok]
ReportEv(status, idx, attempt, sentCount, action) ==
    [ev |-> "report", status |-> status, idx |-> idx, attempt |-> attempt,
     sent |-> sentCount, action |-> action]
BuildEv(rcpt, ok) == [ev |-> "build", rcpt |-> rcpt, ok |-> ok]
SendEv(rcpt, id, ok) == [ev |-> "send", rcpt |-> rcpt, id |-> id, ok |-> ok]
CloseEv(id) == [ev |-> "close", id |-> id]

\* The factory Send uses when no SenderFactory option is given.
SenderFactoryFromFlags(dialerNil, sender) ==
    LET name == IF sender # "" THEN sender ELSE "smtp"
    IN CASE name = "smtp" ->
              IF dialerNil THEN [factory |-> "none", err |-> ErrNoDialer]
              ELSE [factory |-> "dialer", err |-> Nil]
         [] name = "fake" -> [factory |-> "fake", err |-> Nil]
         [] OTHER -> [factory |-> "none", err |-> ErrUnknownSender]

\* The outcomes an Open of the factory, and a Send of a sender it opened,
\* can have: a FakeSender never fails.
OpenOutcomes(s) == IF s.factory = "fake" THEN {TRUE} ELSE BOOLEAN
SendOutcomes(s) == IF s.factory = "fake" THEN {TRUE} ELSE BOOLEAN

\* The closure report of Send: answer is what the callback returns.
report(s, status, answer) ==
    IF ~s.progress THEN [action |-> ProgressContinue, trace |-> s.trace]
    ELSE LET action == IF answer = "" THEN ProgressContinue ELSE answer
         IN [action |-> action,
             trace |-> Append(s.trace, ReportEv(status, s.idx, s.attempts + 1,
                                                s.sentCount, action))]
Answers(s) ==
    IF s.progress
    THEN {ProgressContinue, ProgressSkip, ProgressPause, ProgressCancel, ""}
    ELSE {ProgressContinue}

\* A return of Send with no deferred Close.
SendReturnsNoClose(s, err) == [s EXCEPT !.pc = "done", !.err = err]

\* Send returns err: the deferred function closes the sender if there is one.
SendReturns(s, err) ==
    [s EXCEPT !.pc = "done", !.err = err,
              !.trace = IF s.sender # 0 THEN Append(s.trace, CloseEv(s.sender))
                        ELSE s.trace]

\* The break out of the retry loop: on to the next recipient, or return nil
\* after the last.
NextRecipient(s) ==
    IF s.idx + 1 >= Len(s.sent) THEN SendReturns(s, Nil)
    ELSE [s EXCEPT !.pc = "loop", !.idx = s.idx + 1, !.attempts = 0]

\* A give-up test that allows one attempt too many.
GivesUpLate(s) == s.MaxAttempts > 0 /\ s.attempts > s.MaxAttempts

GivesUp(s) == s.MaxAttempts > 0 /\ s.attempts >= s.MaxAttempts
Failures(trace) ==
    Len(SelectSeq(trace, LAMBDA e : e.ev \in {"open", "send"} /\ ~e.ok))

\* The frame after the statements of Send that precede the loop.
SendStart(buildNil, sent, maxAttempts, progress, sender, dialerNil) ==
    LET f == SenderFactoryFromFlags(dialerNil, sender)
        frame == [pc |-> "loop", sent |-> sent, MaxAttempts |-> maxAttempts,
                  progress |-> progress, factory |-> f.factory, idx |-> 0,
                  attempts |-> 0, sender |-> 0, opened |-> 0, sentCount |-> 0,
                  err |-> Nil, trace |-> <<>>]
    IN IF buildNil THEN SendReturns(frame, ErrNoBuilder)
       ELSE IF Len(sent) = 0 THEN SendReturns(frame, Nil)
       ELSE IF f.err # Nil THEN SendReturns(frame, f.err)
       ELSE frame

\* The copy of the recipients that Send walks, after the shuffle if there
\* is one: its elements are named by their place in it.
Recipients(n) == [i \in 1..n |-> i]
\* The values of the flag MaxAttempts: 0 is "unlimited".
MaxAttemptsValues == {0, 1, 2}
SenderFlags == {"", "smtp", "fake", "bogus"}

\* Send is called: the statements before the loop over the recipients.
SendCall ==
    /\ send = NoSend
    /\ \E buildNil \in BOOLEAN, n \in 0..MaxRecipients,
          maxAttempts \in MaxAttemptsValues, progress \in BOOLEAN,
          sender \in SenderFlags, dialerNil \in BOOLEAN :
         send' = SendStart(buildNil, Recipients(n), maxAttempts, progress, sender,
                           dialerNil)
    /\ UNCHANGED <<codecVars, configs, bolt, last, nraw, callers>>

\* Top of the retry loop with the attempts used up: report and give up.
SendGiveUp ==
    /\ send.pc = "loop"
    /\ GivesUp(send)
    /\ \E answer \in Answers(send) :
         LET r == report(send, ProgressGiveUp, answer)
         IN send' = SendReturns([send EXCEPT !.trace = r.trace],
                                ErrExceeded(send.MaxAttempts, send.sent[send.idx + 1]))
    /\ UNCHANGED <<codecVars, configs, bolt, last, nraw, callers>>

\* No sender is open: open one.  A failed Open is reported and counted as
\* an attempt; what the callback answers is not looked at.
SendOpen ==
    /\ send.pc = "loop"
    /\ ~GivesUp(send)
    /\ send.sender = 0
    /\ \E ok \in OpenOutcomes(send), answer \in Answers(send) :
         IF ok
         THEN send' = [send EXCEPT !.pc = "sending", !.sender = send.opened + 1,
                                   !.opened = send.opened + 1,
                                   !.trace = Append(send.trace,
                                     OpenEv(send.sent[send.idx + 1], send.opened + 1, TRUE))]
         ELSE /\ Failures(send.trace) < MaxFailures
              /\ LET s == [send EXCEPT !.trace = Append(send.trace,
                                         OpenEv(send.sent[send.idx + 1], 0, FALSE))]
                     r == report(s, ProgressError, answer)
                 IN send' = [s EXCEPT !.trace = r.trace, !.attempts = send.attempts + 1]
    /\ UNCHANGED <<codecVars, configs, bolt, last, nraw, callers>>

\* A report of "sending" whose answer skip is taken for continue.
SendReportSendingNoSkip ==
    /\ \/ send.pc = "sending"
       \/ (send.pc = "loop" /\ ~GivesUp(send) /\ send.sender # 0)
    /\ \E answer \in Answers(send) :
         LET r == report(send, ProgressSending, answer)
             s == [send EXCEPT !.trace = r.trace]
         IN send' = CASE r.action = ProgressPause -> SendReturns(s, ErrPaused)
                      [] r.action = ProgressCancel -> SendReturns(s, ErrCanceled)
                      [] OTHER -> [s EXCEPT !.pc = "build"]
    /\ UNCHANGED <<codecVars, configs, bolt, last, nraw, callers>>

\* A sender is open (just opened, or kept from the recipient before):
\* report that the message is about to be sent and act on the answer.
SendReportSending ==
    /\ \/ send.pc = "sending"
       \/ (send.pc = "loop" /\ ~GivesUp(send) /\ send.sender # 0)
    /\ \E answer \in Answers(send) :
         LET r == report(send, ProgressSending, answer)
             s == [send EXCEPT !.trace = r.trace]
         IN send' = CASE r.action = ProgressSkip -> NextRecipient(s)
                      [] r.action = ProgressPause -> SendReturns(s, ErrPaused)
                      [] r.action = ProgressCancel -> SendReturns(s, ErrCanceled)
                      [] OTHER -> [s EXCEPT !.pc = "build"]
    /\ UNCHANGED <<codecVars, configs, bolt, last, nraw, callers>>

\* The message builder runs; its error is returned as it is.
SendBuild ==
    /\ send.pc = "build"
    /\ \E ok \in BOOLEAN :
         LET s == [send EXCEPT !.trace = Append(send.trace,
                                                BuildEv(send.sent[send.idx + 1], ok))]
         IN send' = IF ok THEN [s EXCEPT !.pc = "send"] ELSE SendReturns(s, ErrBuild)
    /\ UNCHANGED <<codecVars, configs, bolt, last, nraw, callers>>

\* sender.Send(message), and what follows it in the loop body.
SendMessage ==
    /\ send.pc = "send"
    /\ \E ok \in SendOutcomes(send), answer \in Answers(send) :
         LET s == [send EXCEPT !.trace = Append(send.trace,
                                  SendEv(send.sent[send.idx + 1], send.sender, ok))]
         IN IF ok
            THEN LET c == [s EXCEPT !.sentCount = s.sentCount + 1]
                     r == report(c, ProgressSent, answer)
                     d == [c EXCEPT !.trace = r.trace]
                 IN send' = CASE r.action = ProgressPause -> SendReturns(d, ErrPaused)
                              [] r.action = ProgressCancel -> SendReturns(d, ErrCanceled)
                              [] OTHER -> NextRecipient(d)
            ELSE /\ Failures(send.trace) < MaxFailures
                 /\ LET r == report(s, ProgressError, answer)
                        d == [s EXCEPT !.trace = r.trace]
                    IN send' = CASE r.action = ProgressPause -> SendReturns(d, ErrPaused)
                                 [] r.action = ProgressCancel -> SendReturns(d, ErrCanceled)
                                 [] OTHER -> [d EXCEPT !.pc = "loop", !.sender = 0,
                                                       !.attempts = s.attempts + 1,
                                                       !.trace = Append(r.trace,
                                                                        CloseEv(s.sender))]
    /\ UNCHANGED <<codecVars, configs, bolt, last, nraw, callers>>

SendNext ==
    SendCall \/ SendGiveUp \/ SendOpen \/ SendReportSending \/ SendBuild \/ SendMessage

SpecSend == BackendsInit /\ [][SendNext]_vars

(***************************************************************************)
(* Concurrent callers of one bbolt Loader.  Each Loader method is one call *)
(* of db.View (List, Read) or db.Update (Write, Delete).  A View            *)
(* transaction works on the database as committed when it began; Update    *)
(* transactions run one at a time, each on the database the one before     *)
(* committed, and commit when their function returns nil.  callers[c] is   *)
(* the call caller c is in: pc is "called" before its transaction began,   *)
(* "tx" inside it, "done" once it returned; snap is the database its       *)
(* transaction works on.  Three fields only record history: preceded, the  *)
(* callers that had returned when the call was made, db0, the database     *)
(* committed at that time, and seen, the databases committed from then     *)
(* until the call returned.                                                *)
(***************************************************************************)
NumCallers == 3
Callers == 1..NumCallers
ConcNames == {Q}
ConcData == MarshalValue(Json, "A")
Idle == [pc |-> "idle"]
IsUpdate(op) == op \in {"Write", "Delete"}
\* A call whose transaction has not ended.
InFlight(c) == callers[c].pc \in {"called", "tx"}
\* The database of a loader that Open returned: the bucket of the scope
\* exists and holds any of the names.
ConcInit ==
    /\ cin = <<>>
    /\ cop = "none"
    /\ cout = Returned(<<>>)
    /\ configs = NoRows
    /\ bolt \in {[s \in {ScopeNs} |-> [n \in names |-> ConcData]] :
                   names \in SUBSET ConcNames}
    /\ last = NoCall
    /\ nraw = 0
    /\ send = NoSend
    /\ callers = [c \in Callers |-> Idle]

\* A caller calls List, Read, Write or Delete of the loader.  Three fields of
\* the call only record history: preceded, for a Write or a Delete the
\* callers whose Write or Delete had returned;
\* db0, for a Read or a Delete the database as the call was made; seen, for
\* a List or a Read the databases committed between the call and the end of
\* its transaction.
LoaderCall ==
    /\ \E c \in Callers, op \in {"List", "Read", "Write", "Delete"}, name \in ConcNames :
         /\ callers[c].pc = "idle"
         /\ op = "List" => name = Q
         /\ callers' = [callers EXCEPT ![c] =
                [pc |-> "called", op |-> op, name |-> name, snap |-> NoBuckets,
                 err |-> Nil, names |-> <<>>, data |-> <<>>,
                 preceded |-> IF IsUpdate(op)
                              THEN {d \in Callers : /\ callers[d].pc = "done"
                                                    /\ IsUpdate(callers[d].op)}
                              ELSE {},
                 db0 |-> IF op \in {"Read", "Delete"} THEN bolt ELSE NoBuckets,
                 seen |-> IF IsUpdate(op) THEN {} ELSE {bolt}]]
    /\ UNCHANGED <<codecVars, configs, bolt, last, nraw, send>>

\* db.View or db.Update begins the transaction of the call: Update waits
\* until no other Update is running.
TxBegin ==
    /\ \E c \in Callers :
         /\ callers[c].pc = "called"
         /\ IsUpdate(callers[c].op) =>
               ~\E d \in Callers : callers[d].pc = "tx" /\ IsUpdate(callers[d].op)
         /\ callers' = [callers EXCEPT ![c].pc = "tx", ![c].snap = bolt]
    /\ UNCHANGED <<codecVars, configs, bolt, last, nraw, send>>

\* The function of the transaction runs and the transaction ends: View
\* gives up its snapshot, Update commits what the function did, or rolls
\* back when the function returned an error, and lets the next Update begin.
\* The method has not returned yet.
TxEnd ==
    /\ \E c \in Callers :
         /\ callers[c].pc = "tx"
         /\ LET call == callers[c]
                r == CASE call.op = "List" ->
                            LET l == BoltLoaderList(call.snap, ScopeNs, FALSE)
                            IN [db |-> bolt, err |-> l.err, names |-> l.names, data |-> <<>>]
                       [] call.op = "Read" ->
                            LET l == BoltLoaderRead(call.snap, ScopeNs, call.name, FALSE)
                            IN [db |-> bolt, err |-> l.err, names |-> <<>>, data |-> l.data]
                       [] call.op = "Write" ->
                            LET l == BoltLoaderWrite(call.snap, ScopeNs, call.name,
                                                     ConcData, FALSE)
                            IN [db |-> l.db, err |-> l.err, names |-> <<>>, data |-> <<>>]
                       [] call.op = "Delete" ->
                            LET l == BoltLoaderDelete(call.snap, ScopeNs, call.name, FALSE)
                            IN [db |-> IF l.err = Nil THEN l.db ELSE bolt, err |-> l.err,
                                names |-> <<>>, data |-> <<>>]
            IN /\ bolt' = r.db
               /\ callers' = [d \in Callers |->
                     IF d = c
                     THEN [call EXCEPT !.pc = "ended", !.err = r.err, !.names = r.names,
                                       !.data = r.data, !.snap = NoBuckets]
                     ELSE IF InFlight(d) /\ ~IsUpdate(callers[d].op)
                     THEN [callers[d] EXCEPT !.seen = callers[d].seen \cup {r.db}]
                     ELSE callers[d]]
    /\ UNCHANGED <<codecVars, configs, last, nraw, send>>

\* The method returns to its caller what db.View or db.Update gave.
LoaderReturn ==
    /\ \E c \in Callers :
         /\ callers[c].pc = "ended"
         /\ callers' = [callers EXCEPT ![c].pc = "done"]
    /\ UNCHANGED <<codecVars, configs, bolt, last, nraw, send>>

ConcNext == LoaderCall \/ TxBegin \/ TxEnd \/ LoaderReturn

SpecConc == ConcInit /\ [][ConcNext]_vars

(***************************************************************************)
(* MultiFormat properties.  In an action formula, configs is the table     *)
(* before the call and configs', last' are the table and the results after *)
(* it.                                                                     *)
(***************************************************************************)
Row(name) == <<Store.scope, name>>
Has(cfg, name) == Row(name) \in DOMAIN cfg
\* cfg2 is cfg except possibly for the rows of the names in touched.
SameExcept(cfg, cfg2, touched) ==
    /\ \A p \in DOMAIN cfg : p[2] \in touched \/ (p \in DOMAIN cfg2 /\ cfg2[p] = cfg[p])
    /\ \A p \in DOMAIN cfg2 : p[2] \in touched \/ p \in DOMAIN cfg

\* What probing format number i for key k gives when the formats in failing
\* hit a database error: the entry loads if it exists, its read succeeds and
\* its payload is empty or decodes.
Loads(cfg, k, i, failing) ==
    LET m == Store.marshaller[i]
    IN /\ m \notin failing
       /\ Has(cfg, NameOf(k, m))
       /\ (cfg[Row(NameOf(k, m))] = <<>> \/ Decodes(m, cfg[Row(NameOf(k, m))]))

\* The number of the format that a step of Unmarshal(Key) probes, 0 for any
\* other step.
ProbeOf ==
    IF last = NoCall /\ last'.op \in {"Unmarshal", "Unmarshal.loop"}
                     /\ last'.desc.type = "Key"
    THEN 1
    ELSE IF last.op = "Unmarshal.loop"
            /\ (last'.op = "Unmarshal" \/ (last'.op = "Unmarshal.loop" /\ last'.i # last.i))
    THEN last.i
    ELSE 0

\* C1: Unmarshal(Key(k)) probes the formats in list order, from the first
\* on, and returns the value and the descriptor of the first format whose
\* entry is read without error; so a key written with Marshal(Key(k), A)
\* reads back as A with the first format's descriptor whatever was written
\* for k in the other formats afterwards.
C1_Step ==
    LET i == ProbeOf
    IN i # 0 =>
         LET c == last'
             k == c.desc.k
             m == Store.marshaller[i]
         IN /\ configs' = configs
            /\ IF Loads(configs, k, i, c.failing)
               THEN LET data == configs[Row(NameOf(k, m))]
                    IN /\ c.op = "Unmarshal"
                       /\ c.err = Nil
                       /\ ~c.panic
                       /\ c.rdesc = FormatKey(k, m)
                       /\ c.value = (IF data = <<>> THEN Dest ELSE data[2])
               ELSE IF i < Len(Store.marshaller)
               THEN c.op = "Unmarshal.loop" /\ c.i = i + 1
               ELSE c.op = "Unmarshal" /\ c.err # Nil

C1_FirstFormatWins == [][C1_Step]_vars

C1_Witness ==
    /\ last.op = "Unmarshal"
    /\ last.desc = Key(<<113>>)
    /\ last.failing = {}
    /\ Has(configs, NameOf(<<113>>, Toml))
    /\ configs[Row(NameOf(<<113>>, Toml))] = MarshalValue(Toml, "A")
    /\ Has(configs, NameOf(<<113>>, Yaml))
    /\ configs[Row(NameOf(<<113>>, Yaml))] = MarshalValue(Yaml, "B")
    /\ last.err = Nil
    /\ last.value = "A"
    /\ last.rdesc = FormatKey(<<113>>, Toml)

\* C2: a successful Marshal(Key(k), v) writes the one entry named
\* EncodeKey(k) + "." + extension of the first marshaller, serialized with
\* it, and leaves every other stored entry as it was.
C2_Step ==
    (last'.op = "Marshal" /\ last'.desc.type = "Key" /\ last'.err = Nil) =>
        LET name == NameOf(last'.desc.k, Store.marshaller[1])
        IN /\ Has(configs', name)
           /\ configs'[Row(name)] = MarshalValue(Store.marshaller[1], last'.value)
           /\ SameExcept(configs, configs', {name})

C2_MarshalKeyWritesFirstFormatOnly == [][C2_Step]_vars

C2_Witness ==
    /\ last.op = "Marshal"
    /\ last.desc = Key(<<97, Slash, 98>>)
    /\ last.err = Nil
    /\ last.value = "B"
    /\ configs[Row(<<97, Percent, 50, 70, 98, Dot>> \o Extension(Toml))] = MarshalValue(Toml, "B")
    /\ Has(configs, NameOf(<<97, Slash, 98>>, Json))
    /\ configs[Row(NameOf(<<97, Slash, 98>>, Json))] = MarshalValue(Json, "A")

\* C3: a successful Marshal(FormatKey(k, m), v) writes exactly the entry
\* EncodeKey(k) + "." + m.Extension(), serialized with m; and
\* Unmarshal(FormatKey(k, m)) reads exactly that entry: not-found when it is
\* absent, whatever k holds in other formats.
C3_Step ==
    /\ (last'.op = "Marshal" /\ last'.desc.type = "multi" /\ last'.err = Nil) =>
          LET name == NameOf(last'.desc.k, last'.desc.m)
          IN /\ Has(configs', name)
             /\ configs'[Row(name)] = MarshalValue(last'.desc.m, last'.value)
             /\ SameExcept(configs, configs', {name})
    /\ (last'.op = "Unmarshal" /\ last'.desc.type = "multi" /\ last'.failing = {}) =>
          LET k == last'.desc.k
              m == last'.desc.m
              name == NameOf(k, m)
          IN /\ ~last'.panic
             /\ configs' = configs
             /\ IF ~Has(configs, name)
                THEN IsNotExist(last'.err) /\ last'.value = Dest
                ELSE LET data == configs[Row(name)]
                     IN IF data = <<>>
                        THEN last'.err = Nil /\ last'.value = Dest
                             /\ last'.rdesc = FormatKey(k, m)
                        ELSE IF Decodes(m, data)
                        THEN last'.err = Nil /\ last'.value = data[2]
                             /\ last'.rdesc = FormatKey(k, m)
                        ELSE last'.err = ErrDecode(m)

C3_FormatKeyTargetsOneFormat == [][C3_Step]_vars

C3_Witness ==
    /\ last.op = "Unmarshal"
    /\ last.desc = FormatKey(<<113>>, Json)
    /\ last.failing = {}
    /\ IsNotExist(last.err)
    /\ Has(configs, NameOf(<<113>>, Toml))
    /\ Has(configs, NameOf(<<113>>, Yaml))
    /\ ~Has(configs, NameOf(<<113>>, Json))

\* The number of the format that a step of Delete(Key) attempts to delete,
\* 0 for any other step.
AttemptOf ==
    IF last = NoCall /\ last'.op \in {"Delete", "Delete.loop"} /\ last'.desc.type = "Key"
    THEN 1
    ELSE IF last.op = "Delete.loop"
            /\ (last'.op = "Delete" \/ (last'.op = "Delete.loop" /\ last'.i # last.i))
    THEN last.i
    ELSE 0
\* The names of the entries of key k in the formats of the store.
NamesOf(k) == {NameOf(k, m) : m \in Formats}
\* What C4 says of the table after Delete(Key(k)): no entry of k in a format
\* of the store, and no descriptor of key k in what List returns.
NoneLeft(cfg, k) ==
    LET listed == MultiList(Store, cfg, FALSE).descs
    IN /\ \A m \in Formats : ~Has(cfg, NameOf(k, m))
       /\ \A i \in 1..Len(listed) : listed[i].k # k

\* C4: after Delete(Key(k)) returned nil, no entry of k is left in any
\* format of the store, List returns no descriptor with key k, and the
\* entries of the other keys are as before.  Stated for the calls during
\* which no other user of the database wrote an entry of k.
C4_Step ==
    /\ (AttemptOf # 0 /\ last'.op = "Delete" /\ last'.err = Nil /\ last'.raced = {})
          => NoneLeft(configs', last'.desc.k)
    /\ AttemptOf # 0 => SameExcept(configs, configs', NamesOf(last'.desc.k))

C4_DeleteKeyRemovesAllFormats == [][C4_Step]_vars

\* What the deletion of format m reports in Delete(Key(k)) on table cfg.
Reported(cfg, k, m, failing) ==
    IF m \in failing THEN "error"
    ELSE IF Has(cfg, NameOf(k, m)) THEN "deleted" ELSE "not-found"

\* C5: Delete(Key(k)) attempts the deletion for every marshaller, also after
\* one of them failed; it returns not-found exactly when every deletion
\* reported not-found, nil when at least one deleted and the others reported
\* not-found, and an aggregate holding every other error otherwise.
C5_Step ==
    LET i == AttemptOf
    IN i # 0 =>
         LET c == last'
             k == c.desc.k
             m == Store.marshaller[i]
             n == Len(Store.marshaller)
             rep == Reported(configs, k, m, c.failing)
             sofar == IF last = NoCall THEN <<>> ELSE last.reports
         IN /\ c.reports = Append(sofar, rep)
            /\ Len(c.reports) = i
            /\ IF rep = "deleted"
               THEN ~Has(configs', NameOf(k, m))
               ELSE configs' = configs
            /\ IF i < n
               THEN c.op = "Delete.loop" /\ c.i = i + 1
               ELSE /\ c.op = "Delete"
                    /\ IsNotExist(c.err) <=> (\A j \in 1..n : c.reports[j] = "not-found")
                    /\ ((\E j \in 1..n : c.reports[j] = "deleted")
                          /\ (\A j \in 1..n : c.reports[j] \in {"deleted", "not-found"}))
                         => c.err = Nil
                    /\ \A j \in 1..n : c.reports[j] = "error" =>
                          /\ c.err.kind = "multi"
                          /\ \E e \in 1..Len(c.err.errs) :
                                c.err.errs[e] =
                                  CouldNotDelete(NameOf(k, Store.marshaller[j]), ErrBackend)

C5_DeleteKeyOutcome == [][C5_Step]_vars

C5_Witness ==
    /\ last.op = "Delete"
    /\ last.desc = Key(<<113>>)
    /\ last.failing = {Toml}
    /\ last.err.kind = "multi"
    /\ Len(last.err.errs) = 1
    /\ Has(configs, NameOf(<<113>>, Toml))
    /\ ~Has(configs, NameOf(<<113>>, Json))
    /\ ~Has(configs, NameOf(<<113>>, Yaml))
    /\ nraw = 0

\* C6: Delete(FormatKey(k, m)) removes the entry EncodeKey(k) + "." +
\* m.Extension() and nothing else; when that entry is absent it returns
\* not-found and changes nothing.
C6_Step ==
    (last'.op = "Delete" /\ last'.desc.type = "multi" /\ last'.failing = {}) =>
        LET name == NameOf(last'.desc.k, last'.desc.m)
        IN IF Has(configs, name)
           THEN /\ last'.err = Nil
                /\ ~Has(configs', name)
                /\ SameExcept(configs, configs', {name})
           ELSE /\ IsNotExist(last'.err)
                /\ configs' = configs

C6_DeleteFormatKeyRemovesOneEntry == [][C6_Step]_vars

C6_Witness ==
    /\ last.op = "Delete"
    /\ last.desc = FormatKey(<<113>>, Json)
    /\ last.err = Nil
    /\ ~Has(configs, NameOf(<<113>>, Json))
    /\ Has(configs, NameOf(<<113>>, Toml))
    /\ Has(configs, NameOf(<<113>>, Yaml))
    /\ Has(configs, NameOf(<<97, Slash, 98>>, Json))

\* C8: Unmarshal(Key(k)) returns a not-found error only if no entry of k
\* exists in any format of the store; an entry that exists but does not
\* decode, or whose read fails in the database, shows as that error when no
\* other format yields a value.  Stated for the calls during which no other
\* user of the database wrote.
C8_NotFoundMeansAbsent ==
    (last.op = "Unmarshal" /\ last.desc.type = "Key" /\ IsNotExist(last.err)
       /\ last.raced = {}) =>
        \A m \in Formats : ~Has(configs, NameOf(last.desc.k, m))

(***************************************************************************)
(* Backend properties.                                                     *)
(***************************************************************************)
InBucket(db, scope, name) == scope \in DOMAIN db /\ name \in DOMAIN db[scope]

\* C7: on the SQLite and bbolt loaders, Read and Delete of a name that the
\* scope does not hold (also when the scope holds nothing) return an error
\* that os.IsNotExist recognises and change nothing; Unmarshal of an absent
\* key returns that condition in SimpleStore, MultiFormat, SQLiteStore and
\* BoltStore.  (All this when the database itself does not fail.)
C7_Step ==
    /\ (last'.op \in {"sqlite.Read", "sqlite.Delete"} /\ ~last'.failed
          /\ <<last'.scope, last'.name>> \notin DOMAIN configs)
         => (IsNotExist(last'.err) /\ configs' = configs /\ bolt' = bolt)
    /\ (last'.op \in {"bbolt.Read", "bbolt.Delete"} /\ ~last'.failed
          /\ ~InBucket(bolt, last'.scope, last'.name))
         => (IsNotExist(last'.err) /\ configs' = configs /\ bolt' = bolt)
    /\ (last'.op = "SQLiteStore.Unmarshal" /\ ~last'.failed
          /\ <<ScopeNs, last'.name>> \notin DOMAIN configs)
         => (IsNotExist(last'.err) /\ configs' = configs /\ bolt' = bolt)
    /\ (last'.op = "BoltStore.Unmarshal" /\ ~last'.failed
          /\ ~InBucket(bolt, ScopeNs, last'.desc.k))
         => (IsNotExist(last'.err) /\ configs' = configs /\ bolt' = bolt)
    /\ (last'.op = "SimpleStore.Unmarshal" /\ ~last'.failed
          /\ <<ScopeNs, NameOf(last'.desc.k, Json)>> \notin DOMAIN configs)
         => (IsNotExist(last'.err) /\ configs' = configs /\ bolt' = bolt)
    /\ (last'.op = "MultiFormat.Unmarshal" /\ ~last'.failed
          /\ \A m \in (IF last'.desc.type = "Key" THEN Formats ELSE {last'.desc.m}) :
                <<ScopeNs, NameOf(last'.desc.k, m)>> \notin DOMAIN configs)
         => (IsNotExist(last'.err) /\ configs' = configs /\ bolt' = bolt)

C7_AbsentIsNotExist == [][C7_Step]_vars

\* A Delete on the bucket "app", which holds nothing, while the bucket
\* "app/ns" holds the name.
C7_Witness ==
    /\ last.op = "bbolt.Delete"
    /\ last.scope = ScopeApp
    /\ last.name = Q
    /\ ~last.failed
    /\ IsNotExist(last.err)
    /\ bolt[ScopeApp] = NoRows
    /\ InBucket(bolt, ScopeNs, Q)
    /\ <<ScopeNs, Q>> \in DOMAIN configs
    /\ <<ScopeApp, Q>> \notin DOMAIN configs

(***************************************************************************)
(* Key codec properties.                                                   *)
(***************************************************************************)
IsHexDigit(b) == b \in (48..57) \cup (65..70) \cup (97..102)
ValidEscapeAt(s, j) ==
    /\ j + 2 <= Len(s)
    /\ s[j] = Percent
    /\ IsHexDigit(s[j + 1])
    /\ IsHexDigit(s[j + 2])
HasValidEscape(s) == \E j \in 1..Len(s) : ValidEscapeAt(s, j)

\* C9: for every byte string s, DecodeKey(EncodeKey(s)) returns s (and does
\* not panic); so two keys with the same encoding are the same key.
C9_RoundTrip ==
    cop = "roundtrip" => (~cout.panic /\ cout.out = cin)

C9_Witness ==
    /\ cop = "roundtrip"
    /\ cin = <<Slash, Percent, Nul, 200>>
    /\ cout.out = cin

\* C10: DecodeKey never panics; a '%' that does not start a valid escape is
\* copied and decoding resumes at the next byte; a string without any valid
\* escape is returned unchanged.
C10_DecodeTotal ==
    cop = "decode" =>
        /\ ~cout.panic
        /\ (~HasValidEscape(cin) => cout.out = cin)
        /\ ((cin # <<>> /\ cin[1] = Percent /\ ~ValidEscapeAt(cin, 1))
               => cout.out = <<Percent>> \o DecodeKey(Tail(cin)))

C10_Witness ==
    /\ cop = "decode"
    /\ cin = <<Percent, 122, 122>>
    /\ cout = Returned(<<Percent, 122, 122>>)

\* What the encoding of one byte must be: "%2F" for '/', "%25" for '%',
\* "%00" for NUL, the byte itself otherwise.
EscapeOf(b) ==
    IF b = Slash THEN <<Percent, 50, 70>>
    ELSE IF b = Percent THEN <<Percent, 50, 53>>
    ELSE IF b = Nul THEN <<Percent, 48, 48>>
    ELSE <<b>>

RECURSIVE EscapeEach(_)
EscapeEach(s) == IF s = <<>> THEN <<>> ELSE EscapeOf(Head(s)) \o EscapeEach(Tail(s))

IsUpperHexDigit(b) == b \in (48..57) \cup (65..70)

\* C11: EncodeKey replaces '/', '%' and NUL by "%2F", "%25" and "%00" and
\* copies every other byte unchanged and in order; the encoded name holds no
\* '/' and no NUL, and each '%' in it is followed by two uppercase hex digits.
C11_EncodeEscapes ==
    cop = "encode" =>
        /\ ~cout.panic
        /\ cout.out = EscapeEach(cin)
        /\ \A j \in 1..Len(cout.out) :
              /\ cout.out[j] \notin {Slash, Nul}
              /\ cout.out[j] = Percent =>
                    /\ j + 2 <= Len(cout.out)
                    /\ IsUpperHexDigit(cout.out[j + 1])
                    /\ IsUpperHexDigit(cout.out[j + 2])

C11_Witness ==
    /\ cop = "encode"
    /\ cin = <<Slash, Percent, Nul, 122>>
    /\ cout.out = <<Percent, 50, 70, Percent, 50, 53, Percent, 48, 48, 122>>

(***************************************************************************)
(* SimpleStore properties.                                                 *)
(***************************************************************************)
\* The name a SimpleStore (TOML) entry of key k is expected under: the
\* escaped key, then ".toml".
TomlNameOf(k) == EscapeEach(k) \o <<Dot, 116, 111, 109, 108>>

\* C12: after SimpleStore.Marshal(Key(k), v) succeeds the loader holds an
\* entry named EncodeKey(k) + "." + extension, and SimpleStore.Unmarshal(Key(k))
\* then succeeds and yields v; an Unmarshal that finds the entry a Marshal of
\* v wrote returns v.
C12_Step ==
    /\ (last'.op = "SimpleStore.Marshal" /\ last'.desc.type = "Key" /\ last'.err = Nil) =>
          /\ <<ScopeNs, TomlNameOf(last'.desc.k)>> \in DOMAIN configs'
          /\ SimpleUnmarshal(SimpleToml, configs', last'.desc, Dest, FALSE)
               = [desc |-> last'.desc, err |-> Nil, value |-> last'.value]
    /\ (/\ last'.op = "SimpleStore.Unmarshal"
        /\ last'.desc.type = "Key"
        /\ ~last'.failed
        /\ <<ScopeNs, TomlNameOf(last'.desc.k)>> \in DOMAIN configs
        /\ \E v \in Values :
              configs[<<ScopeNs, TomlNameOf(last'.desc.k)>>] = MarshalValue(Toml, v)) =>
          /\ last'.err = Nil
          /\ last'.rdesc = last'.desc
          /\ MarshalValue(Toml, last'.value)
               = configs[<<ScopeNs, TomlNameOf(last'.desc.k)>>]

C12_SimpleRoundTrip == [][C12_Step]_vars

\* Unmarshal(Key("a/b%")) has returned the value B that Marshal stored under
\* "a%2Fb%25.toml".
C12_Witness ==
    /\ last.op = "SimpleStore.Unmarshal"
    /\ last.desc = Key(<<97, Slash, 98, Percent>>)
    /\ last.err = Nil
    /\ last.value = "B"
    /\ <<ScopeNs, <<97, Percent, 50, 70, 98, Percent, 50, 53, Dot, 116, 111, 109, 108>>>>
          \in DOMAIN configs

(***************************************************************************)
(* MultiFormat.List properties.                                            *)
(***************************************************************************)
ScopeRows(cfg) == {p \in DOMAIN cfg : p[1] = Store.scope}

\* C13: List returns one descriptor per name stored in the loader; the entry
\* of key k in format m shows as exactly one descriptor with Key() = k and
\* format m, so a key stored in n formats shows as n descriptors.
C13_ListFanOut ==
    (last.op = "List" /\ last.err = Nil) =>
        /\ Len(last.descs) = Cardinality(ScopeRows(configs))
        /\ \A k \in Keys :
              /\ \A m \in Formats :
                    Cardinality({i \in 1..Len(last.descs) : last.descs[i] = FormatKey(k, m)})
                      = IF Has(configs, NameOf(k, m)) THEN 1 ELSE 0
              /\ Cardinality({i \in 1..Len(last.descs) :
                                 DescKey(last.descs[i]) = k /\ last.descs[i].m \in Formats})
                    = Cardinality({m \in Formats : Has(configs, NameOf(k, m))})

\* "q" is stored in the three formats and "a/b" in JSON: List returns the
\* three descriptors of "q" and the one of "a/b".
C13_Witness ==
    /\ last.op = "List"
    /\ last.err = Nil
    /\ Len(last.descs) = 4
    /\ \A m \in Formats : \E i \in 1..4 : last.descs[i] = FormatKey(<<113>>, m)
    /\ \E i \in 1..4 : last.descs[i] = FormatKey(<<97, Slash, 98>>, Json)

\* C14: Unmarshal of a descriptor that List returned does not panic and reads
\* the entry the descriptor was made for, whatever the extension of its name.
C14_ListedDescriptorUsable ==
    last.op = "UnmarshalListed" =>
        /\ ~last.panic
        /\ last.err # ErrNotExist
        /\ last.rdesc = last.desc

(***************************************************************************)
(* Scoped store properties.  The view of a store is what its scope holds:  *)
(* a function from name to payload.                                        *)
(***************************************************************************)
SqlView(cfg, scope) ==
    [n \in {p[2] : p \in {q \in DOMAIN cfg : q[1] = scope}} |-> cfg[<<scope, n>>]]
BoltView(db, scope) == IF scope \in DOMAIN db THEN db[scope] ELSE NoRows
ViewBefore == IF last'.backend = "sqlite" THEN SqlView(configs, last'.scope)
              ELSE BoltView(bolt, last'.scope)
ViewAfter == IF last'.backend = "sqlite" THEN SqlView(configs', last'.scope)
             ELSE BoltView(bolt', last'.scope)
IsStoreCall == "backend" \in DOMAIN last'
IsStoreCallDone(op, scope) ==
    "backend" \in DOMAIN last /\ last.op = op /\ last.scope = scope

\* C15: a Marshal or Delete on the store of one scope, whatever its outcome,
\* leaves List and Unmarshal of the store of every other scope of the same
\* SQLite database or bbolt file as they were.
C15_Step ==
    (IsStoreCall /\ last'.op \in {"Marshal", "Delete"}) =>
        \A other \in Scopes \ {last'.scope} :
            /\ SQLiteStoreList(other, configs', FALSE) = SQLiteStoreList(other, configs, FALSE)
            /\ BoltStoreList(other, bolt', FALSE) = BoltStoreList(other, bolt, FALSE)
            /\ \A k \in ScopedKeys :
                  /\ SQLiteStoreUnmarshal(other, configs', k, Dest, FALSE)
                       = SQLiteStoreUnmarshal(other, configs, k, Dest, FALSE)
                  /\ BoltStoreUnmarshal(other, bolt', Key(k), Dest, FALSE)
                       = BoltStoreUnmarshal(other, bolt, Key(k), Dest, FALSE)

C15_ScopeIsolation == [][C15_Step]_vars

\* "q" was deleted from scope "app/ns" in both databases while scope "app"
\* holds its own "q" in both.
C15_Witness ==
    /\ IsStoreCallDone("Delete", ScopeNs)
    /\ last.err = Nil
    /\ DescKey(last.desc) = Q
    /\ <<ScopeApp, Q>> \in DOMAIN configs
    /\ <<ScopeNs, Q>> \notin DOMAIN configs
    /\ ScopeApp \in DOMAIN bolt
    /\ Q \in DOMAIN bolt[ScopeApp]

\* C16: SQLiteStore and BoltStore behave as a map from key to value of the
\* scope: a successful Marshal(k, v) sets k to v and nothing else, a
\* successful Delete(k) removes k (which was there) and nothing else, a failed
\* call changes nothing, List returns each key of the map once, Unmarshal(k)
\* returns the value k maps to and not-found when k is not in the map.
C16_Step ==
    IsStoreCall =>
        LET k == DescKey(last'.desc)
        IN /\ (last'.op = "Marshal" /\ last'.err = Nil) =>
                 ViewAfter = [n \in (DOMAIN ViewBefore) \cup {k} |->
                                IF n = k THEN MarshalValue(Json, last'.value)
                                ELSE ViewBefore[n]]
           /\ (last'.op = "Delete" /\ last'.err = Nil) =>
                 /\ k \in DOMAIN ViewBefore
                 /\ ViewAfter = [n \in (DOMAIN ViewBefore) \ {k} |-> ViewBefore[n]]
           /\ (last'.op \in {"Marshal", "Delete"} /\ last'.err # Nil) =>
                 ViewAfter = ViewBefore
           /\ (last'.op = "List" /\ ~last'.failed) =>
                 /\ last'.err = Nil
                 /\ {DescKey(last'.descs[i]) : i \in 1..Len(last'.descs)} = DOMAIN ViewBefore
                 /\ Len(last'.descs) = Cardinality(DOMAIN ViewBefore)
           /\ (last'.op = "Unmarshal" /\ ~last'.failed) =>
                 IF k \in DOMAIN ViewBefore
                 THEN /\ last'.err = Nil
                      /\ MarshalValue(Json, last'.value) = ViewBefore[k]
                 ELSE /\ last'.err = ErrNotExist
                      /\ last'.value = Dest
           /\ (last'.op \in {"List", "Unmarshal"}) => ViewAfter = ViewBefore

C16_StoreRefinesMap == [][C16_Step]_vars

\* After Marshal("q", A), Marshal("q", B): Unmarshal("q") on the SQLiteStore
\* of "app/ns" returns B.
C16_Witness ==
    /\ IsStoreCallDone("Unmarshal", ScopeNs)
    /\ last.backend = "sqlite"
    /\ last.err = Nil
    /\ last.value = "B"

\* On the BoltStore of "app/ns": "q" was written and then deleted, "r" is
\* still there, and Unmarshal("q") reports not-found.
C16_WitnessBolt ==
    /\ IsStoreCallDone("Unmarshal", ScopeNs)
    /\ last.backend = "bbolt"
    /\ last.desc = Key(Q)
    /\ last.err = ErrNotExist
    /\ R \in DOMAIN bolt[ScopeNs]

(***************************************************************************)
(* Zero-length payloads.                                                   *)
(***************************************************************************)
HasRow(cfg, name) == <<ScopeNs, name>> \in DOMAIN cfg
IsEmptyRow(cfg, name) == HasRow(cfg, name) /\ cfg[<<ScopeNs, name>>] = <<>>
\* The outcome C17 asks for in the record c of a call: no error, the
\* descriptor d, the destination as the caller passed it.
EmptyOutcome(c, d) == c.err = Nil /\ c.rdesc = d /\ c.value = Dest

\* The iteration of the loop of MultiFormat.Unmarshal(Key) that a step runs,
\* 0 when the step runs none.
BackendProbe ==
    IF last = NoCall /\ last'.op \in {"MultiFormat.Unmarshal", "Unmarshal.loop"}
                     /\ last'.desc.type = "Key"
    THEN 1
    ELSE IF last.op = "Unmarshal.loop"
            /\ (last'.op = "MultiFormat.Unmarshal"
                  \/ (last'.op = "Unmarshal.loop" /\ last'.i # last.i))
    THEN last.i
    ELSE 0

\* C17: when the entry Unmarshal selects exists with a zero-length payload,
\* Unmarshal returns no error and a non-nil descriptor of the key and leaves
\* the destination as it was (the decoder, which rejects an empty payload, is
\* not run); when the entry is absent the result is an error instead.  For
\* SQLiteStore, SimpleStore and MultiFormat, where no statement fails in the
\* database.  MultiFormat.Unmarshal(Key) selects an entry at each iteration
\* of its loop: the iteration that reads an empty entry ends the call with
\* that outcome, and the one that finds none goes on to the next format or,
\* at the last, ends the call with an error.
C17_Step ==
    /\ (last'.op = "SQLiteStore.Unmarshal" /\ ~last'.failed) =>
          /\ IsEmptyRow(configs, last'.name) => EmptyOutcome(last', StringDesc(last'.name))
          /\ ~HasRow(configs, last'.name) => last'.err # Nil
          /\ configs' = configs
    /\ (last'.op = "SimpleStore.Unmarshal" /\ ~last'.failed /\ last'.desc # NilDesc) =>
          LET name == EncodeKey(DescKey(last'.desc)) \o <<Dot>> \o Extension(Simple.marshaller)
          IN /\ IsEmptyRow(configs, name) => EmptyOutcome(last', Key(DescKey(last'.desc)))
             /\ ~HasRow(configs, name) => last'.err # Nil
             /\ configs' = configs
    /\ (last'.op = "MultiFormat.Unmarshal" /\ ~last'.failed /\ last'.desc.type = "multi") =>
          /\ IsEmptyRow(configs, NameOf(last'.desc.k, last'.desc.m)) => EmptyOutcome(last', last'.desc)
          /\ ~HasRow(configs, NameOf(last'.desc.k, last'.desc.m)) => last'.err # Nil
          /\ configs' = configs
    /\ LET i == BackendProbe
       IN (i # 0 /\ Store.marshaller[i] \notin last'.failing) =>
            LET m == Store.marshaller[i]
                name == NameOf(last'.desc.k, m)
            IN /\ IsEmptyRow(configs, name) =>
                    /\ last'.op = "MultiFormat.Unmarshal"
                    /\ EmptyOutcome(last', FormatKey(last'.desc.k, m))
               /\ ~HasRow(configs, name) =>
                    IF i < Len(Store.marshaller)
                    THEN last'.op = "Unmarshal.loop" /\ last'.i = i + 1
                    ELSE last'.op = "MultiFormat.Unmarshal" /\ last'.err # Nil
               /\ configs' = configs

C17_EmptyPayload == [][C17_Step]_vars

\* Unmarshal(Key("q")) on MultiFormat: "q.toml" holds a payload TOML rejects,
\* "q.json" was written empty by another user while the call was in its
\* loop; the call returns the JSON descriptor, no error and the destination
\* untouched.
C17_Witness ==
    /\ last.op = "MultiFormat.Unmarshal"
    /\ last.desc = Key(Q)
    /\ HasRow(configs, NameOf(Q, Toml))
    /\ configs[<<ScopeNs, NameOf(Q, Toml)>>] # <<>>
    /\ IsEmptyRow(configs, NameOf(Q, Json))
    /\ EmptyOutcome(last, FormatKey(Q, Json))
    /\ ~last.failed
    /\ last.raced = {NameOf(Q, Json)}

(***************************************************************************)
(* Usage errors.                                                           *)
(***************************************************************************)
\* C18: Marshal, Unmarshal and Delete of SimpleStore, MultiFormat and
\* BoltStore return a usage error for a nil descriptor, and MultiFormat also
\* for a descriptor that is neither a Key nor a FormatKey; the error comes
\* before any loader operation (it is the usage error even when the database
\* would fail), and neither database changes nor is a value decoded.
C18_Step ==
    ("store" \in DOMAIN last'
       /\ (last'.desc = NilDesc
             \/ (last'.store = "MultiFormat" /\ last'.desc.type = "other"))) =>
        /\ last'.err = ErrUsage
        /\ last'.rdesc = NilDesc
        /\ last'.value = Dest
        /\ configs' = configs
        /\ bolt' = bolt

C18_NilDescriptorIsUsageError == [][C18_Step]_vars

\* BoltStore.Delete(nil) has returned the usage error although the
\* transaction would have failed; the entry "q" of the bucket is still there.
C18_Witness ==
    /\ "store" \in DOMAIN last
    /\ last.store = "BoltStore"
    /\ last.op = "Delete"
    /\ last.desc = NilDesc
    /\ last.failed
    /\ last.err = ErrUsage
    /\ Q \in DOMAIN bolt[ScopeNs]
    /\ <<ScopeNs, NameOf(Q, Toml)>> \in DOMAIN configs

(***************************************************************************)
(* factory.New properties.                                                 *)
(***************************************************************************)
\* Flags that cannot give a store: an unknown store type, or for the
\* directory store an unknown mode or an unknown format.
BadFlags(flags) ==
    \/ flags.StoreType \notin {"directory", "datastore", "sqlite"}
    \/ /\ flags.StoreType = "directory"
       /\ \/ flags.DirectoryMode \notin {"", "simple", "multi"}
          \/ flags.DirectoryFormat \notin {"", "toml", "json", "yaml", "gob"}

\* C19: New returns an error and no Opener for an unknown store type, an
\* unknown directory mode or an unknown directory format, and no call of an
\* Opener that New returned reports such a configuration error.
C19_NewFailsFast ==
    /\ (last.op = "New" /\ BadFlags(last.flags)) =>
          (last.err # Nil /\ last.opener = NilOpener)
    /\ last.op = "Open" => last.err.kind # "config"

(***************************************************************************)
(* Tracer properties.                                                      *)
(***************************************************************************)
TracedOps == {"traced.List", "traced.Marshal", "traced.Unmarshal", "traced.Delete"}
\* The calls a traced call made on the underlying store, in order.
CallsOf(events) == SelectSeq(events, LAMBDA e : e.ev = "call")
OperationOf(op) ==
    CASE op = "traced.List" -> "List"
      [] op = "traced.Marshal" -> "Marshal"
      [] op = "traced.Unmarshal" -> "Unmarshal"
      [] op = "traced.Delete" -> "Delete"

\* C20: a call on a store that WrapStore or a wrapped opener returned gives
\* the descriptors, value and error that the same call on the store inside
\* gives, leaves the table as that call leaves it, and reaches the store
\* inside exactly once with the arguments the caller passed; the wrapped
\* opener returns the error of the opener unchanged, with no store.
C20_Step ==
    /\ last'.op \in TracedOps =>
          LET scope == last.inner.scope
          IN /\ CallsOf(last'.events)
                   = <<CallEv(OperationOf(last'.op), last'.desc, last'.arg)>>
             /\ last'.op = "traced.List" =>
                   LET r == SQLiteStoreList(scope, configs, last'.failed)
                   IN last'.descs = r.descs /\ last'.err = r.err /\ configs' = configs
             /\ last'.op = "traced.Marshal" =>
                   LET r == SQLiteStoreMarshal(scope, configs, last'.desc, last'.arg.v,
                                               last'.failed)
                   IN last'.err = r.err /\ configs' = r.cfg
             /\ last'.op = "traced.Unmarshal" =>
                   LET r == SQLiteStoreUnmarshal(scope, configs, last'.desc.k, Dest,
                                                 last'.failed)
                   IN /\ last'.rdesc = r.desc
                      /\ last'.value = r.value
                      /\ last'.err = r.err
                      /\ configs' = configs
             /\ last'.op = "traced.Delete" =>
                   LET r == SQLiteStoreDelete(scope, configs, last'.desc, last'.failed)
                   IN last'.err = r.err /\ configs' = r.cfg
    /\ last'.op = "WrapOpener" =>
          IF last'.failed THEN last'.err = ErrBackend /\ last'.store = NilStore
          ELSE /\ last'.err = Nil
               /\ \/ last'.store = last'.inner
                  \/ (last'.store.type = "tracedStore" /\ last'.store.store = last'.inner)

C20_TracerTransparent == [][C20_Step]_vars

\* A traced store with request logging on has failed a Marshal in the
\* database: the error is the database's, the call is framed by a start and
\* an error line, and the entry an earlier Marshal wrote is still there.
C20_Witness ==
    /\ last.op = "traced.Marshal"
    /\ last.store.type = "tracedStore"
    /\ last.store.logRequests
    /\ last.desc = StringDesc(Q)
    /\ last.err = ErrBackend
    /\ Len(last.events) = 3
    /\ <<ScopeNs, Q>> \in DOMAIN configs

(***************************************************************************)
(* The lines a traced call logs.                                           *)
(***************************************************************************)
IsLog(e, statuses) == e.ev = "log" /\ e.line.status \in statuses
StartLines(events) == SelectSeq(events, LAMBDA e : IsLog(e, {"start"}))
CompletionLines(events) == SelectSeq(events, LAMBDA e : IsLog(e, {"success", "error"}))
\* The position of the call on the underlying store among the events.
CallAt(events) == CHOOSE i \in 1..Len(events) : events[i].ev = "call"

\* C21: every call on a traced store logs exactly one completion line, with
\* status "error" when the call failed and "success" when it did not, after
\* the call on the underlying store; it logs a start line, before that
\* call, if and only if request logging is on; never more than one of each.
C21_OneCompletionLine ==
    (last.op \in TracedOps /\ last.store.type = "tracedStore") =>
        LET ev == last.events
            c == CallAt(ev)
        IN /\ Len(CompletionLines(ev)) = 1
           /\ \A i \in 1..Len(ev) :
                 /\ IsLog(ev[i], {"success", "error"}) =>
                       /\ i > c
                       /\ ev[i].line.status = (IF last.err = Nil THEN "success" ELSE "error")
                 /\ IsLog(ev[i], {"start"}) => i < c
           /\ Len(StartLines(ev)) = (IF last.store.logRequests THEN 1 ELSE 0)

\* name starts with one of the prefixes of the list.
StartsWithSome(name, prefixes) ==
    \E i \in 1..Len(prefixes) :
        /\ Len(prefixes[i]) <= Len(name)
        /\ \A j \in 1..Len(prefixes[i]) : name[j] = prefixes[i][j]

\* C22: WrapStore(name, store) returns store itself exactly when store is
\* nil, or none of Enabled, LogRequests, LogResponses is set, or name starts
\* with an exclude prefix, or the include list is not empty and name starts
\* with none of its prefixes; otherwise it returns a tracedStore around it.
C22_WrapStorePolicy ==
    last.op = "WrapStore" =>
        LET t == last.tracer
            unwrapped ==
                \/ last.inner = NilStore
                \/ ~(t.Enabled \/ t.LogRequests \/ t.LogResponses)
                \/ StartsWithSome(last.name, t.Exclude)
                \/ (Len(t.Include) > 0 /\ ~StartsWithSome(last.name, t.Include))
        IN /\ (last.store = last.inner) <=> unwrapped
           /\ ~unwrapped => (last.store.type = "tracedStore" /\ last.store.store = last.inner)

\* WrapStore was given a store under the name "app/ns", which starts with
\* the include prefix "app" and with the exclude prefix "app/ns", by an
\* enabled tracer: it returned the store itself.
C22_Witness ==
    /\ last.op = "WrapStore"
    /\ last.name = ScopeNs
    /\ last.tracer.Enabled
    /\ last.tracer.Include = <<Other, App>>
    /\ last.tracer.Exclude = <<Other, ScopeNs>>
    /\ last.inner # NilStore
    /\ last.store = last.inner

(***************************************************************************)
(* kemail.Send properties, over the trace of the call.                     *)
(***************************************************************************)
Running == send.pc # "idle"
SendReturned == send.pc = "done"
\* The position of recipient r in the order Send walks.
PosOf(r) == CHOOSE i \in 1..Len(send.sent) : send.sent[i] = r
\* The recipient an event is about.
RcptOf(e) == IF e.ev = "report" THEN send.sent[e.idx + 1] ELSE e.rcpt
EventsOf(r) ==
    SelectSeq(send.trace, LAMBDA e : e.ev # "close" /\ RcptOf(e) = r)
FailedAttempts(r) ==
    Len(SelectSeq(send.trace,
                  LAMBDA e : e.ev \in {"open", "send"} /\ ~e.ok /\ e.rcpt = r))
Deliveries(r) ==
    Len(SelectSeq(send.trace, LAMBDA e : e.ev = "send" /\ e.ok /\ e.rcpt = r))
\* The callback (if any) has answered no report with pause or cancel.
Uninterrupted ==
    \A i \in 1..Len(send.trace) :
        send.trace[i].ev = "report"
            => send.trace[i].action \notin {ProgressPause, ProgressCancel}
WasReported(status, r) ==
    \E i \in 1..Len(send.trace) :
        /\ send.trace[i].ev = "report"
        /\ send.trace[i].status = status
        /\ send.sent[send.trace[i].idx + 1] = r

\* C23: with MaxAttempts = N > 0, no recipient sees more than N failed
\* attempts (failed Opens and failed sends together) and none is sent more
\* than once; a recipient that reaches N failures is the last one attempted,
\* and Send then reports give_up for it and returns the error "exceeded N
\* attempts"; when every recipient has been sent, Send returns nil.  The
\* returned error is stated for calls whose callback answered neither pause
\* nor cancel.
C23_MaxAttempts ==
    (Running /\ send.MaxAttempts > 0) =>
        \A r \in 1..Len(send.sent) :
            /\ FailedAttempts(r) <= send.MaxAttempts
            /\ Deliveries(r) <= 1
            /\ FailedAttempts(r) = send.MaxAttempts =>
                  /\ Deliveries(r) = 0
                  /\ \A q \in 1..Len(send.sent) :
                        PosOf(q) > PosOf(r) => EventsOf(q) = <<>>
                  /\ (SendReturned /\ Uninterrupted) =>
                        /\ send.err = ErrExceeded(send.MaxAttempts, r)
                        /\ send.progress => WasReported(ProgressGiveUp, r)
            /\ (SendReturned /\ Uninterrupted
                  /\ \A q \in 1..Len(send.sent) : Deliveries(q) = 1) =>
                  send.err = Nil

\* Send with MaxAttempts = 2 has sent the first recipient, then failed an
\* Open and failed a send for the second, and has given up on it.
C23_Witness ==
    /\ SendReturned
    /\ send.MaxAttempts = 2
    /\ Len(send.sent) = 2
    /\ send.progress
    /\ Deliveries(send.sent[1]) = 1
    /\ \E i, j \in 1..Len(send.trace) :
          /\ send.trace[i].ev = "open" /\ ~send.trace[i].ok
          /\ send.trace[i].rcpt = send.sent[2]
          /\ send.trace[j].ev = "send" /\ ~send.trace[j].ok
          /\ send.trace[j].rcpt = send.sent[2]
    /\ WasReported(ProgressGiveUp, send.sent[2])
    /\ send.err = ErrExceeded(2, send.sent[2])

\* Event i of the trace is a "sending" report answered with action.
SendingAnswered(i, action) ==
    /\ send.trace[i].ev = "report"
    /\ send.trace[i].status = ProgressSending
    /\ send.trace[i].action = action
\* Every recipient was sent, or skipped when its sending was reported.
SentOrSkipped(r) ==
    \/ Deliveries(r) = 1
    \/ \E i \in 1..Len(send.trace) :
          SendingAnswered(i, ProgressSkip) /\ RcptOf(send.trace[i]) = r

\* C24: after the callback answers a "sending" report for a recipient with
\* skip, pause or cancel, that recipient is neither built nor sent a
\* message.  On skip, Send goes on with the next recipient in order (or
\* returns after the last) and returns nil when every other recipient is
\* sent or skipped; on pause it returns ErrPaused and on cancel ErrCanceled
\* at once, touching no other recipient: only the sender is closed.
C24_SendingAnswers ==
    Running =>
        /\ \A i \in 1..Len(send.trace) :
              LET r == RcptOf(send.trace[i])
                  later == {j \in 1..Len(send.trace) : j > i}
              IN /\ (\E a \in {ProgressSkip, ProgressPause, ProgressCancel} :
                        SendingAnswered(i, a)) =>
                       /\ Deliveries(r) = 0
                       /\ \A j \in later :
                             send.trace[j].ev \in {"build", "send"} => send.trace[j].rcpt # r
                 /\ SendingAnswered(i, ProgressSkip) =>
                       /\ \A j \in later :
                             send.trace[j].ev # "close" =>
                                 PosOf(RcptOf(send.trace[j])) > PosOf(r)
                       /\ (i + 1 \in later /\ send.trace[i + 1].ev # "close") =>
                             PosOf(RcptOf(send.trace[i + 1])) = PosOf(r) + 1
                       /\ i = Len(send.trace) =>
                             IF PosOf(r) < Len(send.sent)
                             THEN send.pc = "loop" /\ send.idx = PosOf(r)
                             ELSE send.pc = "done" /\ send.err = Nil
                 /\ SendingAnswered(i, ProgressPause) =>
                       /\ SendReturned /\ send.err = ErrPaused
                       /\ \A j \in later : send.trace[j].ev = "close"
                 /\ SendingAnswered(i, ProgressCancel) =>
                       /\ SendReturned /\ send.err = ErrCanceled
                       /\ \A j \in later : send.trace[j].ev = "close"
        /\ (SendReturned /\ Uninterrupted /\ Len(send.sent) > 0
              /\ \A q \in 1..Len(send.sent) : SentOrSkipped(q)) =>
              send.err = Nil

\* The callback answered skip for the first of two recipients, the second
\* was then sent through the same sender, and Send returned nil.
C24_Witness ==
    /\ SendReturned
    /\ Len(send.sent) = 2
    /\ \E i \in 1..Len(send.trace) :
          SendingAnswered(i, ProgressSkip) /\ RcptOf(send.trace[i]) = send.sent[1]
    /\ Deliveries(send.sent[1]) = 0
    /\ Deliveries(send.sent[2]) = 1
    /\ send.opened = 1
    /\ send.err = Nil

\* C25: once the callback has answered a report of "sending", "error" or
\* "sent" with cancel, Send opens no sender and sends no message any more:
\* it has returned ErrCanceled.
C25_CancelStopsAtOnce ==
    Running =>
        \A i \in 1..Len(send.trace) :
            (/\ send.trace[i].ev = "report"
             /\ send.trace[i].status \in {ProgressSending, ProgressError, ProgressSent}
             /\ send.trace[i].action = ProgressCancel) =>
                /\ SendReturned
                /\ send.err = ErrCanceled
                /\ \A j \in 1..Len(send.trace) :
                      j > i => send.trace[j].ev \notin {"open", "send"}

\* The senders open after the first n events of the trace: opened and not
\* closed since.
OpenAfter(n) ==
    {id \in 1..send.opened :
        \E i \in 1..n :
            /\ send.trace[i].ev = "open" /\ send.trace[i].ok /\ send.trace[i].id = id
            /\ \A j \in (i + 1)..n : ~(send.trace[j].ev = "close" /\ send.trace[j].id = id)}
IsEv(i, ev) == send.trace[i].ev = ev

\* C28: at every point of a call of Send at most one sender is open; a send
\* that follows a successful send goes through the same sender, with no
\* Open in between; after a failed send the sender is closed before the
\* factory is asked for another; and once Send has returned, whatever the
\* return path, every sender that an Open returned has been closed.
C28_SenderLifecycle ==
    Running =>
        /\ \A n \in 0..Len(send.trace) : Cardinality(OpenAfter(n)) <= 1
        /\ \A i \in 1..Len(send.trace) : \A j \in (i + 1)..Len(send.trace) :
              /\ (/\ IsEv(i, "send") /\ send.trace[i].ok
                  /\ IsEv(j, "send")
                  /\ \A k \in (i + 1)..(j - 1) : ~IsEv(k, "send")) =>
                    /\ send.trace[j].id = send.trace[i].id
                    /\ \A k \in (i + 1)..(j - 1) : ~IsEv(k, "open") /\ ~IsEv(k, "close")
              /\ (IsEv(i, "send") /\ ~send.trace[i].ok /\ IsEv(j, "open")) =>
                    \E k \in (i + 1)..(j - 1) :
                        IsEv(k, "close") /\ send.trace[k].id = send.trace[i].id
        /\ SendReturned => OpenAfter(Len(send.trace)) = {}

\* A send through the first sender failed; the sender was closed, a second
\* one was opened, both recipients were sent through it, and Send returned
\* nil with both senders closed.
C28_Witness ==
    /\ SendReturned
    /\ send.err = Nil
    /\ Len(send.sent) = 2
    /\ send.opened = 2
    /\ \E i \in 1..Len(send.trace) :
          IsEv(i, "send") /\ ~send.trace[i].ok /\ send.trace[i].id = 1
    /\ \A r \in 1..2 :
          \E i \in 1..Len(send.trace) :
              /\ IsEv(i, "send") /\ send.trace[i].ok
              /\ send.trace[i].rcpt = r /\ send.trace[i].id = 2
    /\ \A id \in 1..2 :
          \E i \in 1..Len(send.trace) : IsEv(i, "close") /\ send.trace[i].id = id

\* C26: Marshal(d, v) with a descriptor d that List or Unmarshal returned
\* overwrites the entry d was obtained from, with v in d's format, and
\* creates or changes no other entry; when the write fails nothing changes.
C26_Step ==
    last'.op = "MarshalReturned" =>
        IF last'.err = Nil
        THEN /\ Has(configs, last'.from)
             /\ Has(configs', last'.from)
             /\ configs'[Row(last'.from)] = MarshalValue(last'.desc.m, last'.value)
             /\ SameExcept(configs, configs', {last'.from})
        ELSE configs' = configs

C26_MarshalViaDescriptor == [][C26_Step]_vars

(***************************************************************************)
(* SimpleStore.List properties.                                            *)
(***************************************************************************)
\* The keys that have an entry in the loader of the store.
LiveKeys(cfg) == {k \in SimpleKeys : <<ScopeNs, TomlNameOf(k)>> \in DOMAIN cfg}
SimpleRows(cfg) == {p \in DOMAIN cfg : p[1] = ScopeNs}

\* C27: while every entry of the loader was written by Marshal of the
\* store, the entries are those of the keys marshalled and not deleted
\* since (a Marshal of key k adds k, a Delete of k removes it, nothing else
\* changes them), and List returns Key(k) exactly once for each such key k
\* and nothing else: "a/b%", the NUL key and "q.toml" (stored as
\* "q.toml.toml") come back as they were given.
C27_Step ==
    nraw' = 0 =>
        /\ SimpleRows(configs') = {<<ScopeNs, TomlNameOf(k)>> : k \in LiveKeys(configs')}
        /\ LiveKeys(configs') =
              IF last'.op = "SimpleStore.Marshal" /\ last'.err = Nil
              THEN LiveKeys(configs) \cup {last'.desc.k}
              ELSE IF last'.op = "SimpleStore.Delete" /\ last'.err = Nil
              THEN LiveKeys(configs) \ {last'.desc.k}
              ELSE LiveKeys(configs)
        /\ (last'.op = "SimpleStore.List" /\ last'.err = Nil) =>
              /\ Len(last'.descs) = Cardinality(LiveKeys(configs))
              /\ \A k \in LiveKeys(configs) :
                    Cardinality({i \in 1..Len(last'.descs) : last'.descs[i] = Key(k)}) = 1

C27_SimpleListKeys == [][C27_Step]_vars

\* List has returned the four keys "q", "a/b%", "q.toml" and NUL, each
\* once, from the entries that four Marshals wrote.
C27_Witness ==
    /\ last.op = "SimpleStore.List"
    /\ last.err = Nil
    /\ nraw = 0
    /\ Len(last.descs) = 4
    /\ \A k \in SimpleKeys : \E i \in 1..4 : last.descs[i] = Key(k)
    /\ <<ScopeNs, <<113, Dot, 116, 111, 109, 108, Dot, 116, 111, 109, 108>>>>
          \in DOMAIN configs

(***************************************************************************)
(* Stores opened with different arguments.                                 *)
(***************************************************************************)
\* Argument sequences (app, namespaces) of Open: ("app", "ns"), ("app") and
\* ("app/ns"), an application name that holds a '/'.
ArgSeqs == {<<App, <<Ns>>>>, <<App, <<>>>>, <<App \o <<Slash>> \o Ns, <<>>>>}
ScopeOf(args) == storeScope(args[1], args[2])

\* C30: a Marshal or Delete through the store that Open returned for one
\* argument sequence leaves List and Unmarshal of the store that Open
\* returns for any different argument sequence as they were, on the SQLite
\* database and on the bbolt file.
C30_Step ==
    (IsStoreCall /\ last'.op \in {"Marshal", "Delete"}) =>
        \A a \in ArgSeqs : \A b \in ArgSeqs \ {a} :
            ScopeOf(a) = last'.scope =>
                /\ SQLiteStoreList(ScopeOf(b), configs', FALSE)
                     = SQLiteStoreList(ScopeOf(b), configs, FALSE)
                /\ BoltStoreList(ScopeOf(b), bolt', FALSE)
                     = BoltStoreList(ScopeOf(b), bolt, FALSE)
                /\ \A k \in ScopedKeys :
                      /\ SQLiteStoreUnmarshal(ScopeOf(b), configs', k, Dest, FALSE)
                           = SQLiteStoreUnmarshal(ScopeOf(b), configs, k, Dest, FALSE)
                      /\ BoltStoreUnmarshal(ScopeOf(b), bolt', Key(k), Dest, FALSE)
                           = BoltStoreUnmarshal(ScopeOf(b), bolt, Key(k), Dest, FALSE)

C30_ArgumentIsolation == [][C30_Step]_vars

(***************************************************************************)
(* bbolt Loader under concurrent callers (SpecConc).                       *)
(***************************************************************************)
Done(c) == callers[c].pc = "done"
HasCall(c) == callers[c].pc # "idle"
\* Two calls, each a Write or a Delete, overlap when neither had returned
\* before the other was made.
Overlap(c, d) ==
    /\ HasCall(c) /\ HasCall(d)
    /\ IsUpdate(callers[c].op) /\ IsUpdate(callers[d].op)
    /\ c \notin callers[d].preceded
    /\ d \notin callers[c].preceded
DeleteOf(c, name) == HasCall(c) /\ callers[c].op = "Delete" /\ callers[c].name = name
ChangeOf(c, name) == HasCall(c) /\ IsUpdate(callers[c].op) /\ callers[c].name = name
\* A List or Read that returned what the operation gives on database db.
Observes(c, db) ==
    IF callers[c].op = "List"
    THEN LET l == BoltLoaderList(db, ScopeNs, FALSE)
         IN callers[c].err = l.err /\ callers[c].names = l.names
    ELSE LET l == BoltLoaderRead(db, ScopeNs, callers[c].name, FALSE)
         IN callers[c].err = l.err /\ callers[c].data = l.data
\* A group of Delete calls of one name that all returned, that overlap one
\* another, with no other Write or Delete of the name overlapping any of
\* them, the name existing when one of them was made.
DeleteGroup(D, name) ==
    /\ Cardinality(D) >= 2
    /\ \A c \in D : Done(c) /\ DeleteOf(c, name)
    /\ \A c, d \in D : c # d => Overlap(c, d)
    /\ \A e \in Callers \ D : ChangeOf(e, name) => \A c \in D : ~Overlap(c, e)
    /\ \E c \in D : name \in DOMAIN callers[c].db0[ScopeNs]

\* C29: each Loader operation is one transaction: a List or Read that ran
\* while others wrote or deleted returns what the operation gives on one of
\* the databases committed between its call and the end of its transaction,
\* never on a mixture of two, and of several
\* overlapping Deletes of one existing name, with no Write of it overlapping,
\* exactly one returns nil and all the others return not-found.
C29_SingleTransaction ==
    /\ \A c \in Callers :
         Done(c) /\ ~IsUpdate(callers[c].op) =>
             \E db \in callers[c].seen : Observes(c, db)
    /\ \A name \in ConcNames, D \in SUBSET Callers :
         DeleteGroup(D, name) =>
             /\ Cardinality({c \in D : callers[c].err = Nil}) = 1
             /\ \A c \in D : callers[c].err \in {Nil, ErrNotExist}

\* Two Deletes of "q" overlap, the second made after the transaction of the
\* first had committed and before the first returned; a Read made while "q"
\* was there returned not-found.
C29_Witness ==
    /\ \E D \in SUBSET Callers :
         /\ DeleteGroup(D, Q)
         /\ \E c, d \in D : /\ callers[c].err = Nil
                             /\ Q \notin DOMAIN callers[d].db0[ScopeNs]
    /\ \E c \in Callers :
         /\ Done(c) /\ callers[c].op = "Read"
         /\ Cardinality(callers[c].seen) >= 2
         /\ ~Observes(c, callers[c].db0)

====
